---- MODULE Spec2Model ----
(***************************************************************************)
(* A model of the concurrent probe scheduler of NeLST and of the engines   *)
(* built on it:                                                            *)
(*   - the duration-bounded load engines (load/traffic.rs, load/http.rs),  *)
(*   - the count-bounded engines (load/connection.rs, scan/tcp_connect.rs),*)
(*   - the raw SYN/FIN/Xmas/NULL scan (scan/syn.rs) and the UDP scan       *)
(*     (scan/udp.rs).                                                      *)
(* One run of one engine is one behaviour: Init draws the engine and its   *)
(* arguments, the actions are the steps of the main task, of the spawned   *)
(* tasks and of the network.  Every atomic counter update and every await  *)
(* is a step of its own, so that all interleavings the multi-threaded      *)
(* executor allows are explored.                                           *)
(***************************************************************************)
EXTENDS Integers, Sequences, FiniteSets, TLC

\* ------------------------------------------------------------- bounds
\* Largest concurrency, connection count and port-list length.
MaxTasks == 2
\* Probes started by all workers of a duration-bounded run together.
MaxProbes == 2
\* Largest configured duration, in seconds.
MaxDuration == 1
\* TCP packets the network delivers to the raw socket during one raw scan.
MaxReplies == 2
\* Packets the raw socket buffers before the receive loop reads them.
MaxQueue == 1
\* Connections arbitrary peers open to the bandwidth server.
MaxPeerConns == 1
\* Bytes (blocks) one side sends on one bandwidth connection.
MaxBytes == 2
\* Largest --max-hops and --queries of a traceroute.
MaxHops == 2
MaxQueries == 2
\* Latency samples of one collector or one latency run, and the largest sample.
MaxSamples == 4
MaxSample == 2
\* Tokens of one --ports argument.
MaxTokens == 2

\* ------------------------------------------------------------- program constants
\* load/http.rs: `if status >= 500`
ServerErrorMin == 500
\* diag/mtu.rs, diag/trace.rs: the number of values of a u16
U16Modulus == 65536
\* common/error.rs: enum ExitStatus
Success == 0
GeneralError == 1
ArgumentError == 2
ConnectionError == 3
PermissionError == 4
TimeoutError == 5

Tasks == 1..MaxTasks
PortSet == {22, 80}
Statuses == {200, 404, 500, 503}
DurationEngines == {"traffic", "http"}
CountEngines == {"connection", "tcp_connect"}
RawMethods == {"Syn", "Fin", "Xmas", "Null"}

VARIABLES
    args,          \* the argument record of the run (engine included)
    mainpc,        \* position of the main task (the engine's run function)
    spawned,       \* tasks spawned so far / index of the send loops
    joined,        \* handles joined so far
    elapsed,       \* whole seconds the monitor loop has slept
    running,       \* Arc<AtomicBool> running
    total,         \* Arc<AtomicU64> total
    success,       \* Arc<AtomicU64> success
    failed,        \* Arc<AtomicU64> failed
    latencies,     \* number of samples in the shared LatencyCollector
    status_codes,  \* Arc<Mutex<HashMap<u16, u64>>>
    wpc,           \* position of each spawned task
    wres,          \* the outcome of each task's latest probe
    started,       \* probes started in a duration-bounded run
    permits,       \* free permits of the semaphore
    connections,   \* number of streams parked in the keep-alive list
    results,       \* tcp_connect: Arc<Mutex<Vec<PortResult>>>
    rmap,          \* raw scan: Arc<Mutex<HashMap<u16, PortState>>>
    locked,        \* the main task holds the lock of rmap
    rxState,       \* receive task: "Off", "Listening", "Timeout"
    rxq,           \* packets delivered to the raw socket, not yet read
    replies,       \* packets delivered so far
    result,        \* what run returned
    hist,          \* history: what the probes did (read by the properties only)
    srv,           \* bench/bandwidth.rs: the server loop (run_server)
    client,        \* bench/bandwidth.rs: the client (run_client)
    conns,         \* bench/bandwidth.rs: the TCP connections the server was offered
    mtu,           \* diag/mtu.rs: the MTU search (run, binary_search_mtu)
    trace,         \* diag/trace.rs: one traceroute (tcp_trace, udp_trace)
    fail,          \* main.rs: the error a command ended with and the exit code
    stats,         \* common/stats.rs, bench/latency.rs: samples and percentiles
    parser,        \* cli/scan.rs: one call of parse_ports
    pace,          \* load/traffic.rs, load/http.rs: one rate-limited worker and its clock
    meter          \* bench/bandwidth.rs: one run_upload_test / run_download_test

\* The state of the engines that run on the probe scheduler.
enginevars == <<args, mainpc, spawned, joined, elapsed, running, total, success,
                failed, latencies, status_codes, wpc, wres, started, permits,
                connections, results, rmap, locked, rxState, rxq, replies, result,
                hist>>

\* The state of the other commands; a run of one command leaves the state of
\* the others alone.
bwvars == <<srv, client, conns>>
othervars == <<bwvars, mtu, trace, fail, stats, parser, pace, meter>>
nonbwvars == <<enginevars, mtu, trace, fail, stats, parser, pace, meter>>
nonmtuvars == <<enginevars, bwvars, trace, fail, stats, parser, pace, meter>>
nontracevars == <<enginevars, bwvars, mtu, fail, stats, parser, pace, meter>>
nonfailvars == <<enginevars, bwvars, mtu, trace, stats, parser, pace, meter>>
nonstatsvars == <<enginevars, bwvars, mtu, trace, fail, parser, pace, meter>>
nonparservars == <<enginevars, bwvars, mtu, trace, fail, stats, pace, meter>>
nonpacevars == <<enginevars, bwvars, mtu, trace, fail, stats, parser, meter>>
nonmetervars == <<enginevars, bwvars, mtu, trace, fail, stats, parser, pace>>

vars == <<enginevars, othervars>>

\* ------------------------------------------------------------- arguments
RECURSIVE SeqsUpTo(_, _)
SeqsUpTo(S, n) ==
    IF n = 0 THEN {<<>>}
    ELSE LET shorter == SeqsUpTo(S, n - 1)
         IN  shorter \cup {Append(s, x) : s \in {t \in shorter : Len(t) = n - 1}, x \in S}

\* parse_ports returns at least one port for every token, so a parsed list is
\* never empty; it may repeat a port ("80,80").
PortLists == SeqsUpTo(PortSet, MaxTasks) \ {<<>>}

DefaultArgs ==
    [engine |-> "traffic", concurrency |-> 0, count |-> 0, duration |-> 0,
     protocol |-> "tcp", mode |-> "send", rate |-> "none", keep_alive |-> FALSE,
     method |-> "Tcp", ports |-> <<>>, parse_ok |-> TRUE]

TrafficArgs ==
    {[DefaultArgs EXCEPT !.engine = "traffic", !.concurrency = c, !.duration = d,
                         !.protocol = p, !.mode = m, !.rate = r] :
        c \in 0..MaxTasks, d \in 0..MaxDuration, p \in {"tcp", "udp"},
        m \in {"send", "echo", "recv"}, r \in {"none", "zero", "pos"}}

HttpArgs ==
    {[DefaultArgs EXCEPT !.engine = "http", !.concurrency = c, !.duration = d,
                         !.rate = r] :
        c \in 0..MaxTasks, d \in 0..MaxDuration, r \in {"none", "zero", "pos"}}

ConnectionArgs ==
    {[DefaultArgs EXCEPT !.engine = "connection", !.concurrency = c, !.count = n,
                         !.duration = d, !.keep_alive = k] :
        c \in 0..MaxTasks, n \in 0..MaxTasks, d \in 0..MaxDuration, k \in BOOLEAN}

PortInputs ==
    {[ports |-> pl, parse_ok |-> TRUE] : pl \in PortLists}
        \cup {[ports |-> <<>>, parse_ok |-> FALSE]}

\* --concurrency is read by the TCP-connect scan only.
PortScanArgs ==
    {[DefaultArgs EXCEPT !.engine = "tcp_connect", !.method = "Tcp",
                         !.concurrency = c, !.ports = pi.ports,
                         !.parse_ok = pi.parse_ok] :
        c \in 0..MaxTasks, pi \in PortInputs}
    \cup
    {[DefaultArgs EXCEPT !.engine = e.engine, !.method = e.method,
                         !.ports = pi.ports, !.parse_ok = pi.parse_ok] :
        e \in {[engine |-> "udp", method |-> "Udp"]}
              \cup {[engine |-> "raw", method |-> m] : m \in RawMethods},
        pi \in PortInputs}

\* Number of tasks the run spawns (workers, connections, ports).
NumTasks ==
    IF args.engine \in DurationEngines THEN args.concurrency
    ELSE IF args.engine = "connection" THEN args.count
    ELSE Len(args.ports)

\* ------------------------------------------------------------- records
NoOutcome == [kind |-> "none", status |-> 0]

NoResult ==
    [kind |-> "none", err |-> "", total |-> 0, successful |-> 0, failed |-> 0,
     samples |-> 0, ports |-> <<>>, total_scanned |-> 0, open |-> 0, closed |-> 0,
     filtered |-> 0]

ErrResult(k) == [NoResult EXCEPT !.kind = "err", !.err = k]

\* A process that runs another command starts no engine.
NoEngineArgs == [DefaultArgs EXCEPT !.engine = "none"]

\* bench/bandwidth.rs: the server before bind, the client before run_client.
SrvOff ==
    [pc |-> "off", cur |-> 0, accepted |-> 0, total_bytes |-> 0, capped |-> FALSE,
     dl_over |-> FALSE]

ClientOff ==
    [pc |-> "off", direction |-> "Both", target |-> TRUE, cur |-> 0,
     timeup |-> FALSE, upload |-> FALSE, download |-> FALSE, result |-> "none"]

\* diag/mtu.rs: before run.
MtuOff ==
    [pc |-> "off", family |-> "v4", min_mtu |-> 0, max_mtu |-> 0, low |-> 0,
     high |-> 0, result_mtu |-> 0, probes |-> <<>>, calls |-> <<>>, ret |-> "none",
     path_mtu |-> 0, checked |-> FALSE]

\* diag/trace.rs: `let mut hop = Hop { .. }`, and the state before run.
NewHop(ttl) ==
    [ttl |-> ttl, address |-> "None", rtts |-> <<>>, is_destination |-> FALSE,
     handshake |-> FALSE]

TraceOff ==
    [pc |-> "off", mode |-> "Udp", max_hops |-> 0, queries |-> 0, port |-> 0,
     checked |-> FALSE, ttl |-> 0, query |-> 0, hop |-> NewHop(0), hops |-> <<>>,
     ret |-> "none", reached_destination |-> FALSE, total_hops |-> 0,
     target_ttl |-> 0, last_ttl |-> 0, after_target |-> FALSE]

\* common/error.rs and main.rs.  A NelstError is a record: its kind, the
\* io::ErrorKind of an Io error, whether a Permission error has Some(hint), and
\* the place that made it.
NoError == [ok |-> TRUE, kind |-> "none", io_kind |-> "none", hint |-> FALSE,
            site |-> "none"]

NelstError(kind, io_kind, with_hint, site) ==
    [ok |-> FALSE, kind |-> kind, io_kind |-> io_kind, hint |-> with_hint,
     site |-> site]

\* NelstError::permission(message): `hint: None`.
permission(site) == NelstError("Permission", "none", FALSE, site)

\* NelstError::permission_with_hint(message, hint): `hint: Some(hint.into())`.
permission_with_hint(site) == NelstError("Permission", "none", TRUE, site)

\* The Permission errors the engines make.
PermissionErrors ==
    {permission_with_hint("check_root_privileges"),
     permission_with_hint("create_tcp_channel"),
     permission("icmp_ping"),
     permission("icmp_trace"),
     permission("probe_mtu")}

IoKinds == {"PermissionDenied", "TimedOut", "NotFound", "ConnectionRefused", "Other"}

\* Every other error a subcommand can end with.
OtherErrors ==
    {NelstError(k, "none", FALSE, "engine") :
        k \in {"Argument", "Connection", "Timeout", "Config", "Scan", "Other"}}
    \cup {NelstError("Io", k, FALSE, "engine") : k \in IoKinds}

\* NelstError::exit_status
exit_status_io_general(e) ==
    CASE e.kind = "Argument" -> ArgumentError
      [] e.kind = "Connection" -> ConnectionError
      [] e.kind = "Permission" -> PermissionError
      [] e.kind = "Timeout" -> TimeoutError
      [] OTHER -> GeneralError

exit_status(e) ==
    CASE e.kind = "Argument" -> ArgumentError
      [] e.kind = "Connection" -> ConnectionError
      [] e.kind = "Permission" -> PermissionError
      [] e.kind = "Timeout" -> TimeoutError
      [] e.kind = "Io" ->
           IF e.io_kind = "PermissionDenied" THEN PermissionError
           ELSE IF e.io_kind = "TimedOut" THEN TimeoutError
           ELSE GeneralError
      [] OTHER -> GeneralError

\* NelstError::hint: Some exactly for a Permission error made with a hint.
HasHint(e) == e.kind = "Permission" /\ e.hint

\* main.rs: before main.
FailOff ==
    [pc |-> "off", json |-> FALSE, quiet |-> FALSE, save_profile |-> FALSE,
     cmd |-> NoError, result |-> NoError, printed |-> {}, exit_code |-> 0]

\* stats.rs / bench/latency.rs: what a summary holds before it is computed.
NoStats == [some |-> FALSE, count |-> 0, min |-> 0, max |-> 0,
            p50 |-> 0, p95 |-> 0, p99 |-> 0]

\* cli/scan.rs: parse_ports has not been called. `tokens` is history: the
\* tokens the argument string was written from.
NoPorts == [ok |-> FALSE, ports |-> <<>>]
ParserOff == [pc |-> "off", tokens |-> <<>>, ports_str |-> <<>>, parts |-> <<>>,
              result |-> <<>>, ret |-> NoPorts]

\* load/traffic.rs, load/http.rs: no worker is running.  `now` is the clock,
\* `start` the Instant taken at the top of the current iteration, `prev` the
\* one of the iteration before, `wake` the deadline of the sleep; iterations
\* counts the iterations begun.
PaceOff == [pc |-> "off", rated |-> FALSE, d |-> 0, running |-> TRUE, now |-> 0,
            start |-> 0, prev |-> 0, wake |-> 0, iterations |-> 0]

\* No collector and no latency run exists.
\* bench/bandwidth.rs: no direction test is running.  `now` is
\* start.elapsed().as_secs().
MeterOff == [pc |-> "off", dir |-> "Up", duration |-> 0, block_size |-> 0, now |-> 0,
             total_bytes |-> 0, per_second_bytes |-> <<>>, last_second_bytes |-> 0,
             last_second |-> 0, bytes_transferred |-> 0]

\* bench/latency.rs: detect_outliers has not run.
NoOutliers == [ran |-> FALSE, q1 |-> 0, q3 |-> 0, indices |-> {}]
StatsOff == [pc |-> "off", kind |-> "none", samples |-> <<>>, ret |-> NoStats,
             outliers |-> NoOutliers]

OthersIdle ==
    /\ srv = SrvOff
    /\ client = ClientOff
    /\ conns = <<>>
    /\ mtu = MtuOff
    /\ trace = TraceOff
    /\ fail = FailOff
    /\ stats = StatsOff
    /\ parser = ParserOff
    /\ pace = PaceOff
    /\ meter = MeterOff

EnginesStart(A) ==
    /\ args \in A
    /\ mainpc = "start"
    /\ spawned = 0
    /\ joined = 0
    /\ elapsed = 0
    /\ running = TRUE
    /\ total = 0
    /\ success = 0
    /\ failed = 0
    /\ latencies = 0
    /\ status_codes = [s \in Statuses |-> 0]
    /\ wpc = [t \in Tasks |-> "unspawned"]
    /\ wres = [t \in Tasks |-> NoOutcome]
    /\ started = 0
    /\ permits = 0
    /\ connections = 0
    /\ results = <<>>
    /\ rmap = [p \in PortSet |-> "none"]
    /\ locked = FALSE
    /\ rxState = "Off"
    /\ rxq = <<>>
    /\ replies = 0
    /\ result = NoResult
    /\ hist = [ok |-> 0, srv_err |-> 0, err |-> 0, ops |-> <<>>,
               collected |-> [p \in PortSet |->
                                [seen |-> FALSE, syn_ack |-> FALSE, rst |-> FALSE]],
               stream |-> [t \in Tasks |-> "none"],
               pushes |-> [t \in Tasks |-> 0]]

Init ==
    /\ EnginesStart(TrafficArgs \cup HttpArgs \cup ConnectionArgs \cup PortScanArgs)
    /\ OthersIdle

\* ------------------------------------------------------------- duration-bounded runs
\* What the target does with one probe.
TargetBehaviours ==
    {[kind |-> "answers", status |-> s] : s \in Statuses}
        \cup {[kind |-> "errors", status |-> 0], [kind |-> "silent", status |-> 0]}

Ok(status) == [kind |-> "ok", status |-> status]
Err == [kind |-> "err", status |-> 0]
Blocked == [kind |-> "blocked", status |-> 0]

\* run_tcp_request: connect, write_all and read are awaited without a deadline; a
\* target that accepts and then neither sends nor closes leaves `read` pending.
run_tcp_request(mode, b) ==
    CASE b.kind = "answers" -> Ok(0)
      [] b.kind = "errors" -> Err
      [] OTHER -> IF mode = "send" THEN Ok(0) ELSE Blocked

\* run_udp_request: recv is wrapped in a one-second timeout.
run_udp_request(mode, b) ==
    CASE b.kind = "answers" -> Ok(0)
      [] b.kind = "errors" -> Err
      [] OTHER -> IF mode = "send" THEN Ok(0) ELSE Err

\* send_request: the client carries the per-request timeout.
send_request(b) ==
    CASE b.kind = "answers" -> Ok(b.status)
      [] OTHER -> Err

ProbeOutcome(b) ==
    IF args.engine = "http" THEN send_request(b)
    ELSE IF args.protocol = "tcp" THEN run_tcp_request(args.mode, b)
    ELSE run_udp_request(args.mode, b)

\* Mutant of IsServerError: 4xx responses are failures too.
IsClientOrServerError(status) == status >= 400

\* `if status >= 500 { failed } else { success }`
IsServerError(status) == status >= ServerErrorMin

\* Mutant of JoinReady: the main task does not wait for the handle.
JoinReadyNoWait(t) == t \in Tasks

\* The handle of task t resolves: the task ran to its end or panicked.
JoinReady(t) == wpc[t] \in {"exited", "panicked"}

\* After the match: `if let Some(d) = delay { if elapsed < d { sleep } }`.
LoopEnd == IF args.rate = "pos" THEN {"sleep", "check"} ELSE {"check"}

\* HttpTest::run builds a client per worker before spawning it; `?` returns the
\* error and leaves the workers spawned so far running.
BuildClientFail ==
    /\ args.engine = "http"
    /\ mainpc = "start"
    /\ spawned < NumTasks
    /\ mainpc' = "done"
    /\ result' = ErrResult("Config")
    /\ UNCHANGED <<args, spawned, joined, elapsed, running, total, success, failed,
                   latencies, status_codes, wpc, wres, started, permits, connections,
                   results, rmap, locked, rxState, rxq, replies, hist>>
    /\ UNCHANGED othervars

\* tokio::spawn of worker w.  With rate Some(0) the task panics in
\* Duration::from_secs_f64(inf) before its loop.
SpawnWorker(w) ==
    /\ args.engine \in DurationEngines
    /\ mainpc = "start"
    /\ w = spawned + 1
    /\ w <= NumTasks
    /\ spawned' = w
    /\ wpc' = [wpc EXCEPT ![w] = IF args.rate = "zero" THEN "panicked" ELSE "check"]
    /\ UNCHANGED <<args, mainpc, joined, elapsed, running, total, success, failed,
                   latencies, status_codes, wres, started, permits, connections,
                   results, rmap, locked, rxState, rxq, replies, result, hist>>
    /\ UNCHANGED othervars

\* HttpTest::run calls `self.build_client()?` in every pass of the spawn loop
\* and moves that client into the worker spawned in the pass: the clients
\* built so far are as many as the workers spawned.
ClientsBuilt == IF args.engine = "http" THEN spawned ELSE 0

SpawnWorkersDone ==
    /\ args.engine \in DurationEngines
    /\ mainpc = "start"
    /\ spawned = NumTasks
    /\ mainpc' = "monitor"
    /\ UNCHANGED <<args, spawned, joined, elapsed, running, total, success, failed,
                   latencies, status_codes, wpc, wres, started, permits, connections,
                   results, rmap, locked, rxState, rxq, replies, result, hist>>
    /\ UNCHANGED othervars

\* `while start.elapsed() < duration { sleep(1s) }`
MonitorTick ==
    /\ mainpc = "monitor"
    /\ elapsed < args.duration
    /\ elapsed' = elapsed + 1
    /\ UNCHANGED <<args, mainpc, spawned, joined, running, total, success, failed,
                   latencies, status_codes, wpc, wres, started, permits, connections,
                   results, rmap, locked, rxState, rxq, replies, result, hist>>
    /\ UNCHANGED othervars

\* `running.store(false)`
StopSignal ==
    /\ mainpc = "monitor"
    /\ elapsed >= args.duration
    /\ running' = FALSE
    /\ mainpc' = "join"
    /\ UNCHANGED <<args, spawned, joined, elapsed, total, success, failed,
                   latencies, status_codes, wpc, wres, started, permits, connections,
                   results, rmap, locked, rxState, rxq, replies, result, hist>>
    /\ UNCHANGED othervars

\* `while running.load()`: start the next probe or leave the loop.
WorkerCheck(w) ==
    /\ wpc[w] = "check"
    /\ IF running
       THEN /\ started < MaxProbes
            /\ started' = started + 1
            /\ wpc' = [wpc EXCEPT ![w] = "probe"]
       ELSE /\ wpc' = [wpc EXCEPT ![w] = "exited"]
            /\ UNCHANGED started
    /\ UNCHANGED <<args, mainpc, spawned, joined, elapsed, running, total, success,
                   failed, latencies, status_codes, wres, permits, connections,
                   results, rmap, locked, rxState, rxq, replies, result, hist>>
    /\ UNCHANGED othervars

\* The probe's await completes and `total.fetch_add(1)` runs.
ProbeReturn(w, b) ==
    /\ wpc[w] = "probe"
    /\ ProbeOutcome(b) # Blocked
    /\ wres' = [wres EXCEPT ![w] = ProbeOutcome(b)]
    /\ total' = total + 1
    /\ wpc' = [wpc EXCEPT ![w] = "counted"]
    /\ hist' = IF ProbeOutcome(b).kind = "err"
                  THEN [hist EXCEPT !.err = @ + 1]
               ELSE IF ProbeOutcome(b).status >= 500
                  THEN [hist EXCEPT !.srv_err = @ + 1]
               ELSE [hist EXCEPT !.ok = @ + 1]
    /\ UNCHANGED <<args, mainpc, spawned, joined, elapsed, running, success, failed,
                   latencies, status_codes, started, permits, connections,
                   results, rmap, locked, rxState, rxq, replies, result>>
    /\ UNCHANGED othervars

\* The probe's await never completes.
ProbeHang(w) ==
    /\ wpc[w] = "probe"
    /\ \E b \in TargetBehaviours : ProbeOutcome(b) = Blocked
    /\ wpc' = [wpc EXCEPT ![w] = "blocked"]
    /\ UNCHANGED <<args, mainpc, spawned, joined, elapsed, running, total, success,
                   failed, latencies, status_codes, wres, started, permits,
                   connections, results, rmap, locked, rxState, rxq, replies,
                   result, hist>>
    /\ UNCHANGED othervars

\* Mutant of AfterProbeError: the worker matches the same result again.
AfterProbeErrorRecount == {"counted"}

\* Mutant of AfterProbeError: the error ends the worker (`?` or `break`).
AfterProbeErrorBreak == {"exited"}

\* Where a worker goes after the `Err(e)` arm: the arm only counts and logs,
\* so the worker reaches the end of the loop body.
AfterProbeError == LoopEnd

\* `Err(e) => failed.fetch_add(1)` of either engine.
CountFailure(w) ==
    /\ wpc[w] = "counted"
    /\ wres[w].kind = "err"
    /\ failed' = failed + 1
    /\ \E next \in AfterProbeError : wpc' = [wpc EXCEPT ![w] = next]
    /\ UNCHANGED <<args, mainpc, spawned, joined, elapsed, running, total, success,
                   latencies, status_codes, wres, started, permits, connections,
                   results, rmap, locked, rxState, rxq, replies, result, hist>>
    /\ UNCHANGED othervars

\* traffic: `Ok((sent, received)) => success.fetch_add(1)`, then the byte counters.
TrafficCountSuccess(w) ==
    /\ args.engine = "traffic"
    /\ wpc[w] = "counted"
    /\ wres[w].kind = "ok"
    /\ success' = success + 1
    /\ wpc' = [wpc EXCEPT ![w] = "latency"]
    /\ UNCHANGED <<args, mainpc, spawned, joined, elapsed, running, total, failed,
                   latencies, status_codes, wres, started, permits, connections,
                   results, rmap, locked, rxState, rxq, replies, result, hist>>
    /\ UNCHANGED othervars

\* traffic: `latencies.lock().await.add_duration(latency)`
TrafficAddLatency(w) ==
    /\ args.engine = "traffic"
    /\ wpc[w] = "latency"
    /\ latencies' = latencies + 1
    /\ \E next \in LoopEnd : wpc' = [wpc EXCEPT ![w] = next]
    /\ UNCHANGED <<args, mainpc, spawned, joined, elapsed, running, total, success,
                   failed, status_codes, wres, started, permits, connections,
                   results, rmap, locked, rxState, rxq, replies, result, hist>>
    /\ UNCHANGED othervars

\* http: the byte counters, then `latencies.lock().await.add_duration(latency)`
HttpAddLatency(w) ==
    /\ args.engine = "http"
    /\ wpc[w] = "counted"
    /\ wres[w].kind = "ok"
    /\ latencies' = latencies + 1
    /\ wpc' = [wpc EXCEPT ![w] = "status"]
    /\ UNCHANGED <<args, mainpc, spawned, joined, elapsed, running, total, success,
                   failed, status_codes, wres, started, permits, connections,
                   results, rmap, locked, rxState, rxq, replies, result, hist>>
    /\ UNCHANGED othervars

\* http: `*status_codes.lock().await.entry(status).or_insert(0) += 1`
HttpCountStatus(w) ==
    /\ args.engine = "http"
    /\ wpc[w] = "status"
    /\ status_codes' = [status_codes EXCEPT ![wres[w].status] = @ + 1]
    /\ wpc' = [wpc EXCEPT ![w] = "classify"]
    /\ UNCHANGED <<args, mainpc, spawned, joined, elapsed, running, total, success,
                   failed, latencies, wres, started, permits, connections,
                   results, rmap, locked, rxState, rxq, replies, result, hist>>
    /\ UNCHANGED othervars

\* http: `if status >= 500 { failed += 1 } else { success += 1 }`
HttpClassify(w) ==
    /\ args.engine = "http"
    /\ wpc[w] = "classify"
    /\ IF IsServerError(wres[w].status)
       THEN failed' = failed + 1 /\ UNCHANGED success
       ELSE success' = success + 1 /\ UNCHANGED failed
    /\ \E next \in LoopEnd : wpc' = [wpc EXCEPT ![w] = next]
    /\ UNCHANGED <<args, mainpc, spawned, joined, elapsed, running, total,
                   latencies, status_codes, wres, started, permits, connections,
                   results, rmap, locked, rxState, rxq, replies, result, hist>>
    /\ UNCHANGED othervars

\* `tokio::time::sleep(d - elapsed).await` returns.
SleepDone(w) ==
    /\ wpc[w] = "sleep"
    /\ wpc' = [wpc EXCEPT ![w] = "check"]
    /\ UNCHANGED <<args, mainpc, spawned, joined, elapsed, running, total, success,
                   failed, latencies, status_codes, wres, started, permits,
                   connections, results, rmap, locked, rxState, rxq, replies,
                   result, hist>>
    /\ UNCHANGED othervars

\* `for handle in handles { let _ = handle.await; }`, one handle per step.
Join(t) ==
    /\ mainpc = "join"
    /\ t = joined + 1
    /\ t <= NumTasks
    /\ JoinReady(t)
    /\ joined' = t
    /\ UNCHANGED <<args, mainpc, spawned, elapsed, running, total, success, failed,
                   latencies, status_codes, wpc, wres, started, permits, connections,
                   results, rmap, locked, rxState, rxq, replies, result, hist>>
    /\ UNCHANGED othervars

\* The counters are loaded and the LoadTestResult is built.
LoadTestResultOf(t, s, f) ==
    [NoResult EXCEPT !.kind = "load", !.total = t, !.successful = s, !.failed = f,
                     !.samples = latencies]

AggregateLoad ==
    /\ args.engine \in DurationEngines
    /\ mainpc = "join"
    /\ joined = NumTasks
    /\ result' = LoadTestResultOf(total, success, failed)
    /\ mainpc' = "done"
    /\ UNCHANGED <<args, spawned, joined, elapsed, running, total, success, failed,
                   latencies, status_codes, wpc, wres, started, permits, connections,
                   results, rmap, locked, rxState, rxq, replies, hist>>
    /\ UNCHANGED othervars

DurationNext ==
    \/ BuildClientFail
    \/ \E w \in Tasks : SpawnWorker(w)
    \/ SpawnWorkersDone
    \/ MonitorTick
    \/ StopSignal
    \/ \E w \in Tasks : WorkerCheck(w)
    \/ \E w \in Tasks, b \in TargetBehaviours : ProbeReturn(w, b)
    \/ \E w \in Tasks : ProbeHang(w)
    \/ \E w \in Tasks : CountFailure(w)
    \/ \E w \in Tasks : TrafficCountSuccess(w)
    \/ \E w \in Tasks : TrafficAddLatency(w)
    \/ \E w \in Tasks : HttpAddLatency(w)
    \/ \E w \in Tasks : HttpCountStatus(w)
    \/ \E w \in Tasks : HttpClassify(w)
    \/ \E w \in Tasks : SleepDone(w)
    \/ \E t \in Tasks : Join(t)
    \/ AggregateLoad

\* ------------------------------------------------------------- count-bounded runs
ConnectOutcomes ==
    {[kind |-> k, status |-> 0] : k \in {"connected", "refused", "unreachable", "timeout"}}

\* Mutant of scan_port: every connect error is taken for a refusal.
scan_port_errors_closed(o) ==
    CASE o.kind = "connected" -> "Open"
      [] o.kind = "timeout" -> "Filtered"
      [] OTHER -> "Closed"

\* scan_port: `timeout(timeout, TcpStream::connect(addr))` mapped to a PortState.
scan_port(o) ==
    CASE o.kind = "connected" -> "Open"
      [] o.kind = "refused" -> "Closed"
      [] o.kind = "unreachable" -> "Filtered"
      [] OTHER -> "Filtered"

\* Mutant of AcquireReady: the task does not wait for a permit.
AcquireReadyAlways == TRUE

\* `semaphore.acquire().await` returns only with a permit.
AcquireReady == permits > 0

\* Mutant of ConnFailedDelta: the timeout arm forgets the counter.
ConnFailedDeltaNoTimeout(o) == IF o.kind \in {"connected", "timeout"} THEN 0 ELSE 1

\* connection.rs: what each arm of `match result` adds to `failed`.
ConnFailedDelta(o) == IF o.kind = "connected" THEN 0 ELSE 1

\* tcp_connect::run parses the port list first; both engines then create the
\* semaphore with `concurrency` permits.
CountSetup ==
    /\ args.engine \in CountEngines
    /\ mainpc = "start"
    /\ IF args.engine = "tcp_connect" /\ ~args.parse_ok
       THEN /\ mainpc' = "done"
            /\ result' = ErrResult("Argument")
            /\ UNCHANGED permits
       ELSE /\ mainpc' = "spawn"
            /\ permits' = args.concurrency
            /\ UNCHANGED result
    /\ UNCHANGED <<args, spawned, joined, elapsed, running, total, success, failed,
                   latencies, status_codes, wpc, wres, started, connections,
                   results, rmap, locked, rxState, rxq, replies, hist>>
    /\ UNCHANGED othervars

\* tokio::spawn of task t; the task starts by waiting for a permit.
SpawnTask(t) ==
    /\ mainpc = "spawn"
    /\ t = spawned + 1
    /\ t <= NumTasks
    /\ spawned' = t
    /\ wpc' = [wpc EXCEPT ![t] = "acquire"]
    /\ UNCHANGED <<args, mainpc, joined, elapsed, running, total, success, failed,
                   latencies, status_codes, wres, started, permits, connections,
                   results, rmap, locked, rxState, rxq, replies, result, hist>>
    /\ UNCHANGED othervars

SpawnTasksDone ==
    /\ mainpc = "spawn"
    /\ spawned = NumTasks
    /\ mainpc' = "join"
    /\ UNCHANGED <<args, spawned, joined, elapsed, running, total, success, failed,
                   latencies, status_codes, wpc, wres, started, permits, connections,
                   results, rmap, locked, rxState, rxq, replies, result, hist>>
    /\ UNCHANGED othervars

\* `let _permit = semaphore.acquire().await.unwrap()`, then the connect starts.
Acquire(t) ==
    /\ wpc[t] = "acquire"
    /\ AcquireReady
    /\ permits' = permits - 1
    /\ wpc' = [wpc EXCEPT ![t] = "connect"]
    /\ UNCHANGED <<args, mainpc, spawned, joined, elapsed, running, total, success,
                   failed, latencies, status_codes, wres, started, connections,
                   results, rmap, locked, rxState, rxq, replies, result, hist>>
    /\ UNCHANGED othervars

\* connection.rs: the timed connect returns.  A failure is counted, the task
\* ends and its permit is dropped; a success is counted and the task goes on to
\* the latency collector.
ConnConnectReturn(t, o) ==
    /\ args.engine = "connection"
    /\ wpc[t] = "connect"
    /\ wres' = [wres EXCEPT ![t] = o]
    /\ failed' = failed + ConnFailedDelta(o)
    /\ IF o.kind = "connected"
       THEN /\ success' = success + 1
            /\ wpc' = [wpc EXCEPT ![t] = "latency"]
            /\ UNCHANGED permits
       ELSE /\ wpc' = [wpc EXCEPT ![t] = "exited"]
            /\ permits' = permits + 1
            /\ UNCHANGED success
    /\ hist' = IF o.kind = "connected"
               THEN [hist EXCEPT !.ok = @ + 1, !.stream[t] = "open"]
               ELSE [hist EXCEPT !.err = @ + 1]
    /\ UNCHANGED <<args, mainpc, spawned, joined, elapsed, running, total,
                   latencies, status_codes, started, connections,
                   results, rmap, locked, rxState, rxq, replies, result>>
    /\ UNCHANGED othervars

\* connection.rs: `latencies.lock().await.add_duration(latency)`; without
\* keep-alive the stream is dropped, the task ends and its permit is dropped.
ConnAddLatency(t) ==
    /\ args.engine = "connection"
    /\ wpc[t] = "latency"
    /\ latencies' = latencies + 1
    /\ IF args.keep_alive
       THEN /\ wpc' = [wpc EXCEPT ![t] = "park"]
            /\ UNCHANGED <<permits, hist>>
       ELSE /\ wpc' = [wpc EXCEPT ![t] = "exited"]
            /\ permits' = permits + 1
            /\ hist' = [hist EXCEPT !.stream[t] = "closed"]
    /\ UNCHANGED <<args, mainpc, spawned, joined, elapsed, running, total, success,
                   failed, status_codes, wres, started, connections,
                   results, rmap, locked, rxState, rxq, replies, result>>
    /\ UNCHANGED othervars

\* connection.rs: `connections.lock().await.push(stream)`, then the task ends.
ConnPark(t) ==
    /\ args.engine = "connection"
    /\ wpc[t] = "park"
    /\ connections' = connections + 1
    /\ wpc' = [wpc EXCEPT ![t] = "exited"]
    /\ permits' = permits + 1
    /\ hist' = [hist EXCEPT !.pushes[t] = @ + 1]
    /\ UNCHANGED <<args, mainpc, spawned, joined, elapsed, running, total, success,
                   failed, latencies, status_codes, wres, started,
                   results, rmap, locked, rxState, rxq, replies, result>>
    /\ UNCHANGED othervars

\* tcp_connect.rs: scan_port returns.
ScanConnectReturn(t, o) ==
    /\ args.engine = "tcp_connect"
    /\ wpc[t] = "connect"
    /\ wres' = [wres EXCEPT ![t] = o]
    /\ wpc' = [wpc EXCEPT ![t] = "push"]
    /\ UNCHANGED <<args, mainpc, spawned, joined, elapsed, running, total, success,
                   failed, latencies, status_codes, started, permits, connections,
                   results, rmap, locked, rxState, rxq, replies, result, hist>>
    /\ UNCHANGED othervars

\* The PortResult task t pushes (`task` is a ghost field naming the task).
PortResultOf(t) ==
    [port |-> args.ports[t], state |-> scan_port(wres[t]), task |-> t]

\* tcp_connect.rs: `results.lock().await.push(PortResult {..})`, then the task
\* ends and its permit is dropped.
ScanPush(t) ==
    /\ args.engine = "tcp_connect"
    /\ wpc[t] = "push"
    /\ results' = Append(results, PortResultOf(t))
    /\ wpc' = [wpc EXCEPT ![t] = "exited"]
    /\ permits' = permits + 1
    /\ UNCHANGED <<args, mainpc, spawned, joined, elapsed, running, total, success,
                   failed, latencies, status_codes, wres, started, connections,
                   rmap, locked, rxState, rxq, replies, result, hist>>
    /\ UNCHANGED othervars

\* connection.rs: `if keep_alive && args.duration > 0 { sleep(duration).await }`
\* has let the main task go on.
KeepAliveNoWait == TRUE

KeepAliveWaitOver ==
    (args.keep_alive /\ args.duration > 0) => elapsed >= args.duration

\* connection.rs: one second of that sleep.
KeepAliveSleep ==
    /\ args.engine = "connection"
    /\ mainpc = "join"
    /\ joined = NumTasks
    /\ args.keep_alive /\ args.duration > 0
    /\ elapsed < args.duration
    /\ elapsed' = elapsed + 1
    /\ UNCHANGED <<args, mainpc, spawned, joined, running, total, success, failed,
                   latencies, status_codes, wpc, wres, started, permits, connections,
                   results, rmap, locked, rxState, rxq, replies, result, hist>>
    /\ UNCHANGED othervars

\* connection.rs: total_requests is `count`, the other two are the counters.
\* run returns, which drops `connections` and so closes the parked streams.
AggregateConnection ==
    /\ args.engine = "connection"
    /\ mainpc = "join"
    /\ joined = NumTasks
    /\ KeepAliveWaitOver
    /\ result' = LoadTestResultOf(args.count, success, failed)
    /\ mainpc' = "done"
    /\ hist' = [hist EXCEPT
                  !.stream = [t \in Tasks |-> IF hist.stream[t] = "open" THEN "closed"
                                              ELSE hist.stream[t]]]
    /\ UNCHANGED <<args, spawned, joined, elapsed, running, total, success, failed,
                   latencies, status_codes, wpc, wres, started, permits, connections,
                   results, rmap, locked, rxState, rxq, replies>>
    /\ UNCHANGED othervars

\* `port_results.sort_by_key(|r| r.port)`: a stable sort.
RECURSIVE InsertByPort(_, _)
InsertByPort(r, s) ==
    IF s = <<>> THEN <<r>>
    ELSE IF s[Len(s)].port <= r.port THEN Append(s, r)
    ELSE Append(InsertByPort(r, SubSeq(s, 1, Len(s) - 1)), s[Len(s)])

RECURSIVE SortByPort(_)
SortByPort(s) ==
    IF s = <<>> THEN <<>>
    ELSE InsertByPort(s[Len(s)], SortByPort(SubSeq(s, 1, Len(s) - 1)))

\* Mutant of CountState: ports, not entries, are counted.
CountStatePorts(ps, st) ==
    Cardinality({ps[i].port : i \in {j \in DOMAIN ps : ps[j].state = st}})

\* `port_results.iter().filter(|r| r.state == ..).count()` and the counters of
\* the raw and UDP aggregation loops.
CountState(ps, st) == Cardinality({i \in DOMAIN ps : ps[i].state = st})

ScanResultOf(ps, n) ==
    [NoResult EXCEPT !.kind = "scan", !.ports = ps, !.total_scanned = n,
                     !.open = CountState(ps, "Open"),
                     !.closed = CountState(ps, "Closed"),
                     !.filtered = CountState(ps, "Filtered")]

AggregateTcpScan ==
    /\ args.engine = "tcp_connect"
    /\ mainpc = "join"
    /\ joined = NumTasks
    /\ result' = ScanResultOf(SortByPort(results), Len(args.ports))
    /\ mainpc' = "done"
    /\ UNCHANGED <<args, spawned, joined, elapsed, running, total, success, failed,
                   latencies, status_codes, wpc, wres, started, permits, connections,
                   results, rmap, locked, rxState, rxq, replies, hist>>
    /\ UNCHANGED othervars

CountNext ==
    \/ CountSetup
    \/ \E t \in Tasks : SpawnTask(t)
    \/ SpawnTasksDone
    \/ \E t \in Tasks : Acquire(t)
    \/ \E t \in Tasks, o \in ConnectOutcomes : ConnConnectReturn(t, o)
    \/ \E t \in Tasks : ConnAddLatency(t)
    \/ \E t \in Tasks : ConnPark(t)
    \/ \E t \in Tasks, o \in ConnectOutcomes : ScanConnectReturn(t, o)
    \/ \E t \in Tasks : ScanPush(t)
    \/ KeepAliveSleep
    \/ AggregateConnection
    \/ AggregateTcpScan

\* ------------------------------------------------------------- raw and UDP scans
\* What the operating system answers during the setup of a raw scan.
RawEnvs == [ipv6 : BOOLEAN, local_ip_ok : BOOLEAN, root : BOOLEAN, channel_ok : BOOLEAN]

\* syn::run up to the receive task: the first failing step decides the error;
\* `ops` lists the system operations performed on the way.
RawSetupOutcome(env) ==
    IF env.ipv6 THEN [err |-> "Argument", ops |-> <<>>]
    ELSE IF ~env.local_ip_ok THEN [err |-> "Connection", ops |-> <<"udp_socket">>]
    ELSE IF ~env.root THEN [err |-> "Permission", ops |-> <<"udp_socket", "geteuid">>]
    ELSE IF ~env.channel_ok
        THEN [err |-> "Permission", ops |-> <<"udp_socket", "geteuid", "raw_socket">>]
    ELSE IF ~args.parse_ok
        THEN [err |-> "Argument", ops |-> <<"udp_socket", "geteuid", "raw_socket">>]
    ELSE [err |-> "", ops |-> <<"udp_socket", "geteuid", "raw_socket">>]

RawSetup(env) ==
    /\ args.engine = "raw"
    /\ mainpc = "start"
    /\ hist' = [hist EXCEPT !.ops = RawSetupOutcome(env).ops]
    /\ IF RawSetupOutcome(env).err # ""
       THEN /\ mainpc' = "done"
            /\ result' = ErrResult(RawSetupOutcome(env).err)
            /\ UNCHANGED rxState
       ELSE /\ mainpc' = "send"
            /\ rxState' = "Listening"
            /\ UNCHANGED result
    /\ UNCHANGED <<args, spawned, joined, elapsed, running, total, success, failed,
                   latencies, status_codes, wpc, wres, started, permits, connections,
                   results, rmap, locked, rxq, replies>>
    /\ UNCHANGED othervars

\* One iteration of the send loop; a send error is logged and ignored.
RawSend ==
    /\ args.engine = "raw"
    /\ mainpc = "send"
    /\ spawned < NumTasks
    /\ spawned' = spawned + 1
    /\ UNCHANGED <<args, mainpc, joined, elapsed, running, total, success, failed,
                   latencies, status_codes, wpc, wres, started, permits, connections,
                   results, rmap, locked, rxState, rxq, replies, result, hist>>
    /\ UNCHANGED othervars

RawSendDone ==
    /\ args.engine = "raw"
    /\ mainpc = "send"
    /\ spawned = NumTasks
    /\ mainpc' = "wait"
    /\ UNCHANGED <<args, spawned, joined, elapsed, running, total, success, failed,
                   latencies, status_codes, wpc, wres, started, permits, connections,
                   results, rmap, locked, rxState, rxq, replies, result, hist>>
    /\ UNCHANGED othervars

\* TCP packets that can reach the raw socket: from the target, any source port
\* and flags; from another host.
Packets ==
    {[src |-> "target", port |-> p, syn_ack |-> a, rst |-> r] :
        p \in PortSet, a \in BOOLEAN, r \in BOOLEAN}
        \cup {[src |-> "other", port |-> 22, syn_ack |-> TRUE, rst |-> FALSE]}

NetDeliver(pkt) ==
    /\ rxState # "Off"
    /\ replies < MaxReplies
    /\ Len(rxq) < MaxQueue
    /\ rxq' = Append(rxq, pkt)
    /\ replies' = replies + 1
    /\ UNCHANGED <<args, mainpc, spawned, joined, elapsed, running, total, success,
                   failed, latencies, status_codes, wpc, wres, started, permits,
                   connections, results, rmap, locked, rxState, result, hist>>
    /\ UNCHANGED othervars

\* Mutant of determine_port_state: every variant is read like a SYN scan.
determine_port_state_as_syn(response, scan_flags) ==
    IF response.syn_ack THEN "Open"
    ELSE IF response.rst THEN "Closed"
    ELSE "Filtered"

\* determine_port_state
determine_port_state(response, scan_flags) ==
    IF scan_flags = "Syn"
    THEN IF response.syn_ack THEN "Open"
         ELSE IF response.rst THEN "Closed"
         ELSE "Filtered"
    ELSE IF response.rst THEN "Closed" ELSE "Open"

\* receive_responses, one packet: packets of other hosts are skipped; the state
\* is inserted only if `try_lock` gets the map.  hist.collected keeps the flags
\* of the last reply recorded for each port before run returned.
RxNext ==
    /\ rxState = "Listening"
    /\ rxq # <<>>
    /\ rxq' = Tail(rxq)
    /\ LET pkt == Head(rxq)
       IN  IF pkt.src = "target" /\ ~locked
           THEN /\ rmap' = [rmap EXCEPT ![pkt.port] =
                                determine_port_state(pkt, args.method)]
                /\ hist' = IF mainpc = "done" THEN hist
                           ELSE [hist EXCEPT !.collected[pkt.port] =
                                    [seen |-> TRUE, syn_ack |-> pkt.syn_ack,
                                     rst |-> pkt.rst]]
           ELSE UNCHANGED <<rmap, hist>>
    /\ UNCHANGED <<args, mainpc, spawned, joined, elapsed, running, total, success,
                   failed, latencies, status_codes, wpc, wres, started, permits,
                   connections, results, locked, rxState, replies, result>>
    /\ UNCHANGED othervars

\* receive_responses leaves its loop: five seconds have passed, or the
\* iterator returned an error.
RxTimeout ==
    /\ rxState = "Listening"
    /\ rxState' = "Timeout"
    /\ UNCHANGED <<args, mainpc, spawned, joined, elapsed, running, total, success,
                   failed, latencies, status_codes, wpc, wres, started, permits,
                   connections, results, rmap, locked, rxq, replies, result, hist>>
    /\ UNCHANGED othervars

\* `sleep(wait_time)` returns, the handle of the receive task is dropped (the
\* task goes on) and `results.lock().await` gets the map.
RawLock ==
    /\ args.engine = "raw"
    /\ mainpc = "wait"
    /\ locked' = TRUE
    /\ mainpc' = "aggregate"
    /\ UNCHANGED <<args, spawned, joined, elapsed, running, total, success, failed,
                   latencies, status_codes, wpc, wres, started, permits, connections,
                   results, rmap, rxState, rxq, replies, result, hist>>
    /\ UNCHANGED othervars

\* The state of a port without an entry in the map.
NoReplyState(scan_flags) == IF scan_flags = "Syn" THEN "Filtered" ELSE "Open"

RawPortResults ==
    [i \in 1..Len(args.ports) |->
        [port |-> args.ports[i],
         state |-> IF rmap[args.ports[i]] # "none" THEN rmap[args.ports[i]]
                   ELSE NoReplyState(args.method),
         task |-> i]]

\* The aggregation loop over `ports`; the lock is released when run returns.
AggregateRaw ==
    /\ args.engine = "raw"
    /\ mainpc = "aggregate"
    /\ result' = ScanResultOf(RawPortResults, Len(args.ports))
    /\ locked' = FALSE
    /\ mainpc' = "done"
    /\ UNCHANGED <<args, spawned, joined, elapsed, running, total, success, failed,
                   latencies, status_codes, wpc, wres, started, permits, connections,
                   results, rmap, rxState, rxq, replies, hist>>
    /\ UNCHANGED othervars

\* udp::run: parse the ports, bind the socket.
UdpSetup(bind_ok) ==
    /\ args.engine = "udp"
    /\ mainpc = "start"
    /\ IF ~args.parse_ok
       THEN mainpc' = "done" /\ result' = ErrResult("Argument")
       ELSE IF ~bind_ok
       THEN mainpc' = "done" /\ result' = ErrResult("Connection")
       ELSE mainpc' = "send" /\ UNCHANGED result
    /\ UNCHANGED <<args, spawned, joined, elapsed, running, total, success, failed,
                   latencies, status_codes, wpc, wres, started, permits, connections,
                   results, rmap, locked, rxState, rxq, replies, hist>>
    /\ UNCHANGED othervars

\* One iteration of the probe loop: send_to succeeds (the port enters
\* sent_ports, which nothing reads) or fails (logged).
UdpSend ==
    /\ args.engine = "udp"
    /\ mainpc = "send"
    /\ spawned < NumTasks
    /\ spawned' = spawned + 1
    /\ UNCHANGED <<args, mainpc, joined, elapsed, running, total, success, failed,
                   latencies, status_codes, wpc, wres, started, permits, connections,
                   results, rmap, locked, rxState, rxq, replies, result, hist>>
    /\ UNCHANGED othervars

UdpSendDone ==
    /\ args.engine = "udp"
    /\ mainpc = "send"
    /\ spawned = NumTasks
    /\ mainpc' = "wait"
    /\ UNCHANGED <<args, spawned, joined, elapsed, running, total, success, failed,
                   latencies, status_codes, wpc, wres, started, permits, connections,
                   results, rmap, locked, rxState, rxq, replies, result, hist>>
    /\ UNCHANGED othervars

\* udp.rs: closed_ports is created empty and nothing inserts into it.
closed_ports == {}

UdpPortResults ==
    [i \in 1..Len(args.ports) |->
        [port |-> args.ports[i],
         state |-> IF args.ports[i] \in closed_ports THEN "Closed" ELSE "Open",
         task |-> i]]

AggregateUdp ==
    /\ args.engine = "udp"
    /\ mainpc = "wait"
    /\ result' = ScanResultOf(UdpPortResults, Len(args.ports))
    /\ mainpc' = "done"
    /\ UNCHANGED <<args, spawned, joined, elapsed, running, total, success, failed,
                   latencies, status_codes, wpc, wres, started, permits, connections,
                   results, rmap, locked, rxState, rxq, replies, hist>>
    /\ UNCHANGED othervars

ScanNext ==
    \/ \E env \in RawEnvs : RawSetup(env)
    \/ RawSend
    \/ RawSendDone
    \/ \E pkt \in Packets : NetDeliver(pkt)
    \/ RxNext
    \/ RxTimeout
    \/ RawLock
    \/ AggregateRaw
    \/ \E b \in BOOLEAN : UdpSetup(b)
    \/ UdpSend
    \/ UdpSendDone
    \/ AggregateUdp

Next == DurationNext \/ CountNext \/ ScanNext

Spec == Init /\ [][Next]_vars

\* ------------------------------------------------------------- bandwidth benchmark
\* bench/bandwidth.rs.  The server (run_server) serves one connection at a time;
\* its peers are either the client of this program (run_client) or arbitrary
\* TCP peers, which send any bytes and close, reset or stay idle as they like.
\* A byte is "U", "D" or any other value ("X"; the client's payload 0xCD is one).
Bytes == {"U", "D", "X"}
PayloadByte == "X"
Directions == {"Up", "Down", "Both"}

NewConn(by) ==
    [by |-> by, first |-> "none", c2s |-> <<>>, sent |-> 0, cstate |-> "open",
     srv_open |-> TRUE, s2c |-> 0, cmd |-> "none", rd |-> 0, wr |-> 0,
     done |-> FALSE, logged |-> 0]

BwInit ==
    /\ EnginesStart({NoEngineArgs})
    /\ srv = [SrvOff EXCEPT !.pc = "bind"]
    /\ client \in {[ClientOff EXCEPT !.pc = p, !.direction = d, !.target = t] :
                      p \in {"off", "start"}, d \in Directions, t \in BOOLEAN}
    /\ conns = <<>>
    /\ mtu = MtuOff
    /\ trace = TraceOff
    /\ fail = FailOff
    /\ stats = StatsOff
    /\ parser = ParserOff
    /\ pace = PaceOff
    /\ meter = MeterOff

\* ---- run_server
\* TcpListener::bind(bind).await ... ?
SrvBind(ok) ==
    /\ srv.pc = "bind"
    /\ srv' = [srv EXCEPT !.pc = IF ok THEN "accept" ELSE "returned"]
    /\ UNCHANGED <<client, conns, nonbwvars>>

\* listener.accept().await: the next connection of the backlog.
SrvAccept ==
    /\ srv.pc = "accept"
    /\ srv.accepted < Len(conns)
    /\ srv' = [srv EXCEPT !.pc = "cmd", !.cur = srv.accepted + 1,
                          !.accepted = srv.accepted + 1]
    /\ UNCHANGED <<client, conns, nonbwvars>>

\* The end of one iteration of the accept loop: `socket` goes out of scope.
SrvDrop(c, total_bytes) ==
    [conns EXCEPT ![c].srv_open = FALSE, ![c].done = TRUE, ![c].logged = total_bytes]

\* match cmd { b'U' => .., b'D' => .., _ => warn }
DispatchUnknownAsUpload(cmd) == IF cmd = "D" THEN "download" ELSE "upload"

Dispatch(cmd) ==
    CASE cmd = "U" -> "upload"
      [] cmd = "D" -> "download"
      [] OTHER -> "accept"

\* socket.read_exact(&mut cmd_buf).await and the dispatch on cmd_buf[0].
SrvReadCmd ==
    /\ srv.pc = "cmd"
    /\ LET c == srv.cur
           conn == conns[c]
       IN  IF conn.c2s # <<>> /\ conn.cstate # "reset"
           THEN LET cmd == Head(conn.c2s)
                    to == Dispatch(cmd)
                    read == [conns EXCEPT ![c].c2s = Tail(conn.c2s), ![c].cmd = cmd]
                IN  /\ srv' = [srv EXCEPT !.pc = to, !.total_bytes = 0,
                                          !.capped = FALSE, !.dl_over = FALSE,
                                          !.cur = IF to = "accept" THEN 0 ELSE c]
                    /\ conns' = IF to = "accept"
                                THEN [read EXCEPT ![c].srv_open = FALSE,
                                                  ![c].done = TRUE]
                                ELSE read
           ELSE \* Err(e): the peer closed or reset before sending a byte
                /\ conn.cstate # "open"
                /\ srv' = [srv EXCEPT !.pc = "accept", !.cur = 0]
                /\ conns' = SrvDrop(c, 0)
    /\ UNCHANGED <<client, nonbwvars>>

\* start.elapsed() > Duration::from_secs(60) becomes true.
UploadCapElapses ==
    /\ srv.pc = "upload"
    /\ ~srv.capped
    /\ srv' = [srv EXCEPT !.capped = TRUE]
    /\ UNCHANGED <<client, conns, nonbwvars>>

\* One iteration of the upload loop: socket.read(&mut buf).await, then the cap
\* (it is looked at only after a read has returned data).
\* The read returns n > 0 bytes that have arrived, Ok(0) at end of stream, Err
\* on a reset; it stays pending while the peer is idle.
SrvUploadRead ==
    /\ srv.pc = "upload"
    /\ LET c == srv.cur
           conn == conns[c]
       IN  \/ /\ conn.cstate # "reset"
              /\ conn.c2s # <<>>
              /\ \E n \in 1..Len(conn.c2s) :
                    LET total_bytes == srv.total_bytes + n
                        read == [conns EXCEPT ![c].c2s = SubSeq(conn.c2s, n + 1, Len(conn.c2s)),
                                              ![c].rd = conn.rd + n]
                    IN  IF srv.capped
                        THEN /\ srv' = [srv EXCEPT !.pc = "accept", !.cur = 0,
                                                   !.total_bytes = total_bytes]
                             /\ conns' = [read EXCEPT ![c].srv_open = FALSE,
                                                      ![c].done = TRUE,
                                                      ![c].logged = total_bytes]
                        ELSE /\ srv' = [srv EXCEPT !.total_bytes = total_bytes]
                             /\ conns' = read
           \/ /\ \/ conn.cstate = "reset"
                 \/ conn.cstate = "closed" /\ conn.c2s = <<>>
              /\ srv' = [srv EXCEPT !.pc = "accept", !.cur = 0]
              /\ conns' = SrvDrop(c, srv.total_bytes)
    /\ UNCHANGED <<client, nonbwvars>>

\* start.elapsed() < Duration::from_secs(10) becomes false.
DownloadTimeElapses ==
    /\ srv.pc = "download"
    /\ ~srv.dl_over
    /\ srv' = [srv EXCEPT !.dl_over = TRUE]
    /\ UNCHANGED <<client, conns, nonbwvars>>

\* One iteration of the download loop: socket.write_all(&data).await.
SrvDownloadWrite ==
    /\ srv.pc = "download"
    /\ LET c == srv.cur
           conn == conns[c]
       IN  IF srv.dl_over \/ conn.cstate # "open"
           THEN /\ srv' = [srv EXCEPT !.pc = "accept", !.cur = 0]
                /\ conns' = SrvDrop(c, srv.total_bytes)
           ELSE /\ conn.wr < MaxBytes
                /\ srv' = [srv EXCEPT !.total_bytes = srv.total_bytes + 1]
                /\ conns' = [conns EXCEPT ![c].wr = conn.wr + 1,
                                          ![c].s2c = conn.s2c + 1]
    /\ UNCHANGED <<client, nonbwvars>>

ServerNext ==
    \/ \E ok \in BOOLEAN : SrvBind(ok)
    \/ SrvAccept
    \/ SrvReadCmd
    \/ UploadCapElapses
    \/ SrvUploadRead
    \/ DownloadTimeElapses
    \/ SrvDownloadWrite

\* ---- arbitrary peers of the server
PeerConnect ==
    /\ client.pc = "off"
    /\ srv.pc \notin {"bind", "returned"}
    /\ Len(conns) < MaxPeerConns
    /\ conns' = Append(conns, NewConn("peer"))
    /\ UNCHANGED <<srv, client, nonbwvars>>

PeerSend(c, b) ==
    /\ c \in DOMAIN conns
    /\ conns[c].by = "peer"
    /\ conns[c].cstate = "open"
    /\ conns[c].sent < MaxBytes
    /\ conns' = [conns EXCEPT ![c].c2s = Append(conns[c].c2s, b),
                              ![c].sent = conns[c].sent + 1,
                              ![c].first = IF conns[c].sent = 0 THEN b
                                           ELSE conns[c].first]
    /\ UNCHANGED <<srv, client, nonbwvars>>

\* The peer closes its end (how = "closed") or aborts the connection ("reset").
PeerClose(c, how) ==
    /\ c \in DOMAIN conns
    /\ conns[c].by = "peer"
    /\ conns[c].cstate = "open"
    /\ conns' = [conns EXCEPT ![c].cstate = how]
    /\ UNCHANGED <<srv, client, nonbwvars>>

PeerNext ==
    \/ PeerConnect
    \/ \E c \in 1..MaxPeerConns, b \in Bytes : PeerSend(c, b)
    \/ \E c \in 1..MaxPeerConns, how \in {"closed", "reset"} : PeerClose(c, how)

\* ---- run_client
\* matches!(args.direction, BandwidthDirection::Up | BandwidthDirection::Both)
WantsUpload(direction) == direction \in {"Up", "Both"}

\* matches!(args.direction, BandwidthDirection::Down | BandwidthDirection::Both)
WantsDownloadOnlyDown(direction) == direction = "Down"

WantsDownload(direction) == direction \in {"Down", "Both"}

\* args.target.ok_or_else(..)?
CliNoTarget ==
    /\ client.pc = "start"
    /\ ~client.target
    /\ client' = [client EXCEPT !.pc = "done", !.result = "Config"]
    /\ UNCHANGED <<srv, conns, nonbwvars>>

\* Where run_client is once the upload block is over (or was skipped).
AfterUpload(cl) ==
    IF WantsDownload(cl.direction)
    THEN [cl EXCEPT !.pc = "down_connect", !.cur = 0]
    ELSE [cl EXCEPT !.pc = "return", !.cur = 0]

\* The client's end of connection c is closed: `stream` goes out of scope.
CliDrop(c) == [conns EXCEPT ![c].cstate = "closed"]

\* TcpStream::connect(target).await ... ? of the upload block; a run that wants
\* no upload goes on to the download block.
CliConnectUpload(ok) ==
    /\ client.pc = "start"
    /\ client.target
    /\ IF WantsUpload(client.direction)
       THEN IF ok
            THEN /\ conns' = Append(conns, NewConn("client"))
                 /\ client' = [client EXCEPT !.pc = "up_cmd", !.cur = Len(conns) + 1]
            ELSE /\ client' = [client EXCEPT !.pc = "done", !.result = "Connection"]
                 /\ UNCHANGED conns
       ELSE /\ ok
            /\ client' = AfterUpload(client)
            /\ UNCHANGED conns
    /\ UNCHANGED <<srv, nonbwvars>>

\* stream.write_all(b"U") / stream.write_all(b"D"), each with `?`.
CliSendCmd(ok) ==
    /\ client.pc \in {"up_cmd", "down_cmd"}
    /\ LET c == client.cur
           b == IF client.pc = "up_cmd" THEN "U" ELSE "D"
       IN  IF ok
           THEN /\ conns' = [conns EXCEPT ![c].c2s = Append(conns[c].c2s, b),
                                          ![c].sent = conns[c].sent + 1,
                                          ![c].first = b]
                /\ client' = [client EXCEPT
                                !.pc = IF client.pc = "up_cmd" THEN "up_loop"
                                       ELSE "down_loop",
                                !.timeup = FALSE]
           ELSE /\ conns' = CliDrop(c)
                /\ client' = [client EXCEPT !.pc = "done", !.cur = 0,
                                            !.result = "Connection"]
    /\ UNCHANGED <<srv, nonbwvars>>

\* start.elapsed() < duration becomes false.
CliDurationElapses ==
    /\ client.pc \in {"up_loop", "down_loop"}
    /\ ~client.timeup
    /\ client' = [client EXCEPT !.timeup = TRUE]
    /\ UNCHANGED <<srv, conns, nonbwvars>>

\* One iteration of run_upload_test's loop, or its end: the result is stored
\* and the stream dropped at the end of the upload block.
CliUploadStep ==
    /\ client.pc = "up_loop"
    /\ LET c == client.cur
       IN  IF client.timeup \/ ~conns[c].srv_open
           THEN /\ conns' = CliDrop(c)
                /\ client' = [AfterUpload(client) EXCEPT !.upload = TRUE]
           ELSE /\ conns[c].sent < MaxBytes
                /\ conns' = [conns EXCEPT ![c].c2s = Append(conns[c].c2s, PayloadByte),
                                          ![c].sent = conns[c].sent + 1]
                /\ UNCHANGED client
    /\ UNCHANGED <<srv, nonbwvars>>

\* TcpStream::connect(target).await ... ? of the download block.
CliConnectDownload(ok) ==
    /\ client.pc = "down_connect"
    /\ IF ok
       THEN /\ conns' = Append(conns, NewConn("client"))
            /\ client' = [client EXCEPT !.pc = "down_cmd", !.cur = Len(conns) + 1]
       ELSE /\ client' = [client EXCEPT !.pc = "done", !.result = "Connection"]
            /\ UNCHANGED conns
    /\ UNCHANGED <<srv, nonbwvars>>

\* One iteration of run_download_test's loop, or its end.  stream.read stays
\* pending while nothing has arrived and the server keeps the socket.
CliDownloadStep ==
    /\ client.pc = "down_loop"
    /\ LET c == client.cur
       IN  IF client.timeup \/ (conns[c].s2c = 0 /\ ~conns[c].srv_open)
           THEN /\ conns' = CliDrop(c)
                /\ client' = [client EXCEPT !.pc = "return", !.cur = 0,
                                            !.download = TRUE]
           ELSE /\ conns[c].s2c > 0
                /\ conns' = [conns EXCEPT ![c].s2c = 0]
                /\ UNCHANGED client
    /\ UNCHANGED <<srv, nonbwvars>>

\* Ok(BandwidthResult { .. })
CliReturn ==
    /\ client.pc = "return"
    /\ client' = [client EXCEPT !.pc = "done", !.result = "Ok"]
    /\ UNCHANGED <<srv, conns, nonbwvars>>

ClientNext ==
    \/ CliNoTarget
    \/ \E ok \in BOOLEAN : CliConnectUpload(ok)
    \/ \E ok \in BOOLEAN : CliSendCmd(ok)
    \/ CliDurationElapses
    \/ CliUploadStep
    \/ \E ok \in BOOLEAN : CliConnectDownload(ok)
    \/ CliDownloadStep
    \/ CliReturn

BwNext == ServerNext \/ PeerNext \/ ClientNext

BwSpec == BwInit /\ [][BwNext]_vars

\* ------------------------------------------------------------- MTU discovery
\* diag/mtu.rs.  min_mtu, max_mtu, low, high and mid are u16.

\* The sizes given as --min-mtu and --max-mtu (clap accepts every u16 and run
\* does not compare them).
MinMtus == {0, 68, 1492, 65528}
MaxMtus == {0, 76, 1500, 65535}

\* let overhead = if target_ip.is_ipv4() { 28 } else { 48 };
Overhead(family) == IF family = "v4" THEN 28 ELSE 48

\* mtu_size.saturating_sub(overhead)
PayloadSize(mtu_size, family) ==
    IF mtu_size > Overhead(family) THEN mtu_size - Overhead(family) ELSE 0

\* What probe_mtu returns for one size: Err when the ICMP socket cannot be
\* created or set up, Ok(None) without sending when the payload size is 0,
\* otherwise Ok(Some(rtt)) if the echo reply came and Ok(None) if not.
probe_mtu(mtu_size, family) ==
    {"Err"} \cup (IF PayloadSize(mtu_size, family) = 0 THEN {"None"}
                  ELSE {"Some", "None"})

MtuProbe(mtu_size, ok) == [mtu_size |-> mtu_size, success |-> ok]

MtuInit ==
    /\ EnginesStart({NoEngineArgs})
    /\ srv = SrvOff
    /\ client = ClientOff
    /\ conns = <<>>
    /\ mtu \in {[MtuOff EXCEPT !.pc = "resolve", !.family = f, !.min_mtu = lo,
                               !.max_mtu = hi, !.checked = c] :
                   f \in {"v4", "v6"}, lo \in MinMtus, hi \in MaxMtus,
                   c \in BOOLEAN}
    /\ trace = TraceOff
    /\ fail = FailOff
    /\ stats = StatsOff
    /\ parser = ParserOff
    /\ pace = PaceOff
    /\ meter = MeterOff

\* run: resolve_host(&args.target)?
MtuResolve(ok) ==
    /\ mtu.pc = "resolve"
    /\ mtu' = IF ok
              THEN [mtu EXCEPT !.pc = "probe_max", !.low = mtu.min_mtu,
                               !.high = mtu.max_mtu, !.result_mtu = mtu.min_mtu]
              ELSE [mtu EXCEPT !.pc = "done", !.ret = "Connection"]
    /\ UNCHANGED nonmtuvars

\* The search ends with Ok((path_mtu, probes)); run wraps it in MtuResult.
MtuOk(m, path_mtu) == [m EXCEPT !.pc = "done", !.ret = "Ok", !.path_mtu = path_mtu]

\* probe_mtu(..)? returned Err.
MtuErr(m) == [m EXCEPT !.pc = "done", !.ret = "Permission"]

\* Where probe_mtu runs: the probes of max_mtu and min_mtu are called on the
\* async task itself, the probe of the halving loop inside
\* tokio::task::spawn_blocking.
OnBlockingPool(pc) == pc = "search"

Called(m, mtu_size, o) ==
    [m EXCEPT !.calls = Append(m.calls, [mtu_size |-> mtu_size, o |-> o,
                                         pool |-> OnBlockingPool(m.pc)])]

Pushed(m, mtu_size, ok) ==
    [m EXCEPT !.probes = Append(m.probes, MtuProbe(mtu_size, ok))]

\* Some(rtt) at max_mtu: push the probe and `return Ok((max_mtu, probes))`.
MaxSuccessGoesOn(m) == [Pushed(m, m.max_mtu, TRUE) EXCEPT !.pc = "probe_min"]

MaxSuccess(m) == MtuOk(Pushed(m, m.max_mtu, TRUE), m.max_mtu)

\* match probe_mtu(target_ip, max_mtu, timeout)? { .. }
MtuProbeMax(o) ==
    /\ mtu.pc = "probe_max"
    /\ o \in probe_mtu(mtu.max_mtu, mtu.family)
    /\ LET m == Called(mtu, mtu.max_mtu, o)
       IN  mtu' = CASE o = "Err" -> MtuErr(m)
                    [] o = "Some" -> MaxSuccess(m)
                    [] OTHER -> [Pushed(m, m.max_mtu, FALSE) EXCEPT !.pc = "probe_min"]
    /\ UNCHANGED nonmtuvars

\* match probe_mtu(target_ip, min_mtu, timeout)? { .. }
MtuProbeMin(o) ==
    /\ mtu.pc = "probe_min"
    /\ o \in probe_mtu(mtu.min_mtu, mtu.family)
    /\ LET m == Called(mtu, mtu.min_mtu, o)
       IN  mtu' = CASE o = "Err" -> MtuErr(m)
                    [] o = "Some" -> [Pushed(m, m.min_mtu, TRUE) EXCEPT
                                        !.pc = "search", !.result_mtu = m.min_mtu]
                    [] OTHER -> MtuOk(Pushed(m, m.min_mtu, FALSE), m.min_mtu)
    /\ UNCHANGED nonmtuvars

\* `high - 1` and `low + high` in u16: a build with overflow checks panics where
\* the exact value leaves the range, a build without them wraps.
Underflows(high) == high = 0
Overflows(low, high) == low + high >= U16Modulus
HighMinusOne(high) == (high + U16Modulus - 1) % U16Modulus
Mid(low, high) == ((low + high) % U16Modulus) \div 2

\* while low < high - 1: the loop ends, or the condition panics.
MtuSearchEnd ==
    /\ mtu.pc = "search"
    /\ IF Underflows(mtu.high) /\ mtu.checked
       THEN mtu' = [mtu EXCEPT !.pc = "done", !.ret = "panic"]
       ELSE /\ ~(mtu.low < HighMinusOne(mtu.high))
            /\ mtu' = MtuOk(mtu, mtu.result_mtu)
    /\ UNCHANGED nonmtuvars

\* One iteration of the halving loop: the midpoint (which may panic), its probe
\* on the blocking pool, and the update of low / high.
MtuSearchProbe(o) ==
    /\ mtu.pc = "search"
    /\ ~(Underflows(mtu.high) /\ mtu.checked)
    /\ mtu.low < HighMinusOne(mtu.high)
    /\ IF Overflows(mtu.low, mtu.high) /\ mtu.checked
       THEN /\ o = "None"
            /\ mtu' = [mtu EXCEPT !.pc = "done", !.ret = "panic"]
       ELSE LET mid == Mid(mtu.low, mtu.high)
                m == Called(mtu, mid, o)
            IN  /\ o \in probe_mtu(mid, mtu.family)
                /\ mtu' = CASE o = "Err" -> MtuErr(m)
                            [] o = "Some" -> [Pushed(m, mid, TRUE) EXCEPT
                                                !.result_mtu = mid, !.low = mid]
                            [] OTHER -> [Pushed(m, mid, FALSE) EXCEPT !.high = mid]
    /\ UNCHANGED nonmtuvars

MtuNext ==
    \/ \E ok \in BOOLEAN : MtuResolve(ok)
    \/ \E o \in {"Err", "Some", "None"} : MtuProbeMax(o)
    \/ \E o \in {"Err", "Some", "None"} : MtuProbeMin(o)
    \/ MtuSearchEnd
    \/ \E o \in {"Err", "Some", "None"} : MtuSearchProbe(o)

MtuSpec == MtuInit /\ [][MtuNext]_vars

\* ------------------------------------------------------------- traceroute
\* diag/trace.rs.  One run of `diag trace`: for every TTL from 1 to max_hops a
\* hop with `queries` probes; the hop is pushed, and the loop left once a hop
\* is flagged as the destination.
TraceModes == {"Udp", "Tcp", "Icmp"}

\* --port values: the default and the largest u16.
TracePorts == {33434, 65535}

TraceInit ==
    /\ EnginesStart({NoEngineArgs})
    /\ srv = SrvOff
    /\ client = ClientOff
    /\ conns = <<>>
    /\ mtu = MtuOff
    /\ trace \in {[TraceOff EXCEPT !.pc = "resolve", !.mode = m, !.max_hops = h,
                                   !.queries = q, !.port = p, !.checked = c] :
                     m \in TraceModes, h \in 0..MaxHops, q \in 0..MaxQueries,
                     p \in TracePorts, c \in BOOLEAN}
    /\ fail = FailOff
    /\ stats = StatsOff
    /\ parser = ParserOff
    /\ pace = PaceOff
    /\ meter = MeterOff

\* What one call of tcp_connect_with_ttl meets: the socket cannot be made or
\* its TTL set ("socket_err"), connect returns Ok(()) at once ("connect_ok"),
\* connect returns EINPROGRESS and TcpStream::from_std takes the socket
\* ("in_progress") or refuses it ("from_std_err"), connect returns another
\* error ("connect_err").  handshake tells whether the three-way handshake with
\* the target completes for this probe; connect returning Ok(()) means it has.
TcpAttempts ==
    {[via |-> v, handshake |-> h] :
        v \in {"socket_err", "connect_ok", "in_progress", "from_std_err", "connect_err"},
        h \in BOOLEAN}
    \ ({[via |-> "connect_ok", handshake |-> FALSE]}
       \cup {[via |-> v, handshake |-> TRUE] : v \in {"socket_err", "connect_err"}})

\* The Result<bool, NelstError> of tcp_connect_with_ttl.
tcp_connect_with_ttl(a) ==
    CASE a.via = "socket_err" -> "Err"
      [] a.via \in {"connect_ok", "in_progress"} -> "Ok(true)"
      [] OTHER -> "Ok(false)"

\* What one UDP probe meets.
UdpAttempts == {"socket_err", "send_err", "from_target", "from_router", "no_reply"}

\* What one ICMP echo meets.
IcmpAttempts == {"reply", "no_reply"}

\* run: resolve_host(&args.target)?, then the mode's trace function;
\* icmp_trace starts with Client::new(&config) ... ?
TraceStart(resolved, icmp_client) ==
    /\ trace.pc = "resolve"
    /\ trace' = IF ~resolved
                THEN [trace EXCEPT !.pc = "done", !.ret = "Connection"]
                ELSE IF trace.mode = "Icmp" /\ ~icmp_client
                THEN [trace EXCEPT !.pc = "done", !.ret = "Permission"]
                ELSE [trace EXCEPT !.pc = "loop", !.ttl = 1, !.query = 0,
                                   !.hop = NewHop(1)]
    /\ UNCHANGED nontracevars

InHop == trace.pc = "loop" /\ trace.ttl <= trace.max_hops /\ trace.query < trace.queries

\* A query for which no packet left: the rtt is None.
NotSent(t) ==
    [t EXCEPT !.query = t.query + 1, !.hop.rtts = Append(t.hop.rtts, "None")]

\* A query whose probe was sent.  last_ttl, after_target and the hop's
\* handshake are history: the TTL of the last probe sent, whether a probe was
\* sent after a reply of the target had been received, and whether a handshake
\* with the target completed for a probe of this hop.
Probed(t, rtt, handshake) ==
    [t EXCEPT !.query = t.query + 1,
              !.last_ttl = t.ttl,
              !.after_target = t.after_target \/ t.target_ttl # 0,
              !.hop.rtts = Append(t.hop.rtts, rtt),
              !.hop.handshake = t.hop.handshake \/ handshake]

\* tcp_trace: one query of the current hop.
TcpProbe(a) ==
    /\ trace.mode = "Tcp"
    /\ InHop
    /\ LET r == tcp_connect_with_ttl(a)
       IN  trace' =
             IF r = "Err"
             THEN NotSent(trace)
             ELSE [Probed(trace, "Some", a.handshake) EXCEPT
                     !.hop.address = "target",
                     !.hop.is_destination = (r = "Ok(true)") \/ trace.hop.is_destination]
    /\ UNCHANGED nontracevars

\* let dest_port = port + (ttl as u16) + (query as u16);
DestPortOverflows(port, ttl, query) == port + ttl + query >= U16Modulus
DestPort(port, ttl, query) == (port + ttl + query) % U16Modulus

\* udp_trace: one query of the current hop.
UdpProbe(a) ==
    /\ trace.mode = "Udp"
    /\ InHop
    /\ IF DestPortOverflows(trace.port, trace.ttl, trace.query) /\ trace.checked
       THEN /\ a = "no_reply"
            /\ trace' = [trace EXCEPT !.pc = "done", !.ret = "panic"]
       ELSE trace' =
              CASE a = "socket_err" ->
                     [trace EXCEPT !.pc = "done", !.ret = "Connection"]
                [] a = "send_err" -> NotSent(trace)
                [] a = "no_reply" -> Probed(trace, "None", FALSE)
                [] a = "from_router" ->
                     [Probed(trace, "Some", FALSE) EXCEPT !.hop.address = "router"]
                [] OTHER ->
                     [Probed(trace, "Some", FALSE) EXCEPT
                        !.hop.address = "target",
                        !.hop.is_destination = TRUE,
                        !.target_ttl = IF trace.target_ttl = 0 THEN trace.ttl
                                       ELSE trace.target_ttl]
    /\ UNCHANGED nontracevars

\* icmp_trace: one query of the current hop.
IcmpProbe(a) ==
    /\ trace.mode = "Icmp"
    /\ InHop
    /\ trace' = IF a = "reply"
                THEN [Probed(trace, "Some", FALSE) EXCEPT
                        !.hop.address = "target", !.hop.is_destination = TRUE]
                ELSE Probed(trace, "None", FALSE)
    /\ UNCHANGED nontracevars

AllNone(rtts) == \A i \in DOMAIN rtts : rtts[i] = "None"

\* The address put in place of a missing one before the hop is pushed.
Starred(mode, hop) ==
    IF hop.address # "None" THEN hop
    ELSE IF mode = "Udp" /\ AllNone(hop.rtts) THEN [hop EXCEPT !.address = "*"]
    ELSE IF mode = "Icmp" /\ ~AllNone(hop.rtts) THEN [hop EXCEPT !.address = "*"]
    ELSE hop

\* if hop.is_destination { break; }
HopNeverEndsTrace(hop) == FALSE

HopEndsTrace(hop) == hop.is_destination

\* The end of one hop: hops.push(hop.clone()), then the break.
TraceHopDone ==
    /\ trace.pc = "loop"
    /\ trace.ttl <= trace.max_hops
    /\ trace.query = trace.queries
    /\ LET hop == Starred(trace.mode, trace.hop)
           pushed == [trace EXCEPT !.hops = Append(trace.hops, hop)]
       IN  trace' = IF HopEndsTrace(hop)
                    THEN [pushed EXCEPT !.pc = "return"]
                    ELSE [pushed EXCEPT !.ttl = trace.ttl + 1, !.query = 0,
                                        !.hop = NewHop(trace.ttl + 1)]
    /\ UNCHANGED nontracevars

\* run: the loop is over; reached, total and Ok(TraceResult { .. }).
TraceReturn ==
    /\ \/ trace.pc = "return"
       \/ trace.pc = "loop" /\ trace.ttl > trace.max_hops
    /\ trace' = [trace EXCEPT
                   !.pc = "done", !.ret = "Ok",
                   !.reached_destination =
                       \E i \in DOMAIN trace.hops : trace.hops[i].is_destination,
                   !.total_hops = Len(trace.hops)]
    /\ UNCHANGED nontracevars

TraceNext ==
    \/ \E resolved \in BOOLEAN, icmp_client \in BOOLEAN : TraceStart(resolved, icmp_client)
    \/ \E a \in TcpAttempts : TcpProbe(a)
    \/ \E a \in UdpAttempts : UdpProbe(a)
    \/ \E a \in IcmpAttempts : IcmpProbe(a)
    \/ TraceHopDone
    \/ TraceReturn

TraceSpec == TraceInit /\ [][TraceNext]_vars

\* ------------------------------------------------------------- errors and exit codes
FailInit ==
    /\ EnginesStart({NoEngineArgs})
    /\ srv = SrvOff
    /\ client = ClientOff
    /\ conns = <<>>
    /\ mtu = MtuOff
    /\ trace = TraceOff
    /\ fail \in {[FailOff EXCEPT !.pc = "run", !.json = j, !.quiet = q,
                                 !.save_profile = s] :
                    j \in BOOLEAN, q \in BOOLEAN, s \in BOOLEAN}
    /\ stats = StatsOff
    /\ parser = ParserOff
    /\ pace = PaceOff
    /\ meter = MeterOff

\* run_command: the subcommand has returned r.
SubcommandReturns(r) ==
    /\ fail.pc = "run"
    /\ fail' = [fail EXCEPT !.pc = IF fail.save_profile THEN "save" ELSE "return",
                            !.cmd = r]
    /\ UNCHANGED nonfailvars

\* run_command: `save_command_as_profile(cli, profile_name, output)?`
SaveProfile(saved) ==
    /\ fail.pc = "save"
    /\ fail' = IF saved
               THEN [fail EXCEPT !.pc = "return"]
               ELSE [fail EXCEPT !.pc = "main",
                                 !.result = NelstError("Config", "none", FALSE,
                                                       "save_command_as_profile")]
    /\ UNCHANGED nonfailvars

\* run_command: `result`
RunCommandReturns ==
    /\ fail.pc = "return"
    /\ fail' = [fail EXCEPT !.pc = "main", !.result = fail.cmd]
    /\ UNCHANGED nonfailvars

\* main: output.error_with_hint / output.error; both write to stderr whatever
\* the output format.
MainReports ==
    /\ fail.pc = "main"
    /\ fail' = [fail EXCEPT
                  !.pc = "exit",
                  !.printed = IF fail.result.ok THEN {}
                              ELSE IF HasHint(fail.result) THEN {"Error", "Hint"}
                              ELSE {"Error"}]
    /\ UNCHANGED nonfailvars

\* main: ExitCode::from(ExitStatus::Success) / ExitCode::from(e.exit_status())
MainExits ==
    /\ fail.pc = "exit"
    /\ fail' = [fail EXCEPT
                  !.pc = "exited",
                  !.exit_code = IF fail.result.ok THEN Success
                                ELSE exit_status(fail.result)]
    /\ UNCHANGED nonfailvars

FailNext ==
    \/ \E r \in {NoError} \cup PermissionErrors \cup OtherErrors : SubcommandReturns(r)
    \/ \E saved \in BOOLEAN : SaveProfile(saved)
    \/ RunCommandReturns
    \/ MainReports
    \/ MainExits

FailSpec == FailInit /\ [][FailNext]_vars

\* ------------------------------------------------------------- latency statistics
\* Samples are microseconds (u64) in the collector and milliseconds (f64) in
\* the latency benchmark; only their order matters to the percentiles, so both
\* are drawn from 0..MaxSample.
Samples == 0..MaxSample

StatsKinds == {"collector", "latency"}

\* LatencyCollector::new / bench::latency::run before its first measurement.
StatsInit ==
    /\ EnginesStart({NoEngineArgs})
    /\ srv = SrvOff
    /\ client = ClientOff
    /\ conns = <<>>
    /\ mtu = MtuOff
    /\ trace = TraceOff
    /\ fail = FailOff
    /\ stats \in {[StatsOff EXCEPT !.pc = "collect", !.kind = k] : k \in StatsKinds}
    /\ parser = ParserOff
    /\ pace = PaceOff
    /\ meter = MeterOff

Less(a, b) == a < b

Unsorted(s) == s

\* samples.sort_unstable() / sorted.sort_by(partial_cmp)
sort(s) == SortSeq(s, Less)

\* ceil(a / b) and round(a / b) (half away from zero) of non-negative
\* quotients; the f64 products and quotients of the code are exact or round to
\* the same side of every integer and half-integer at these sizes.
CeilDiv(a, b) == (a + b - 1) \div b
RoundDiv(a, b) == (2 * a + b) \div (2 * b)

Min2(a, b) == IF a < b THEN a ELSE b

\* a.saturating_sub(b) on usize
SaturatingSub(a, b) == IF a > b THEN a - b ELSE 0

\* LatencyCollector::percentile: the 1-based position of the sample it returns.
PercentileIdx(len, p) == Min2(SaturatingSub(CeilDiv(len * p, 100), 1), len - 1) + 1

\* LatencyCollector::percentile
percentile(samples, p) ==
    IF samples = <<>> THEN 0 ELSE samples[PercentileIdx(Len(samples), p)]

\* bench::latency::percentile: the 1-based position of the sample it returns.
LatencyPercentileIdx(len, p) == Min2(RoundDiv(p * (len - 1), 100), len - 1) + 1

\* bench::latency::percentile
latency_percentile(sorted, p) ==
    IF sorted = <<>> THEN 0
    ELSE IF Len(sorted) = 1 THEN sorted[1]
    ELSE sorted[LatencyPercentileIdx(Len(sorted), p)]

\* fold(f64::INFINITY, f64::min) / fold(f64::NEG_INFINITY, f64::max) over a
\* non-empty vector.
FoldMin(s) == CHOOSE x \in {s[i] : i \in DOMAIN s} : \A i \in DOMAIN s : x <= s[i]
FoldMax(s) == CHOOSE x \in {s[i] : i \in DOMAIN s} : \A i \in DOMAIN s : x >= s[i]

\* LatencyCollector::compute on the samples sorted in place.
compute(samples) ==
    IF samples = <<>> THEN NoStats
    ELSE [some |-> TRUE, count |-> Len(samples),
          min |-> samples[1], max |-> samples[Len(samples)],
          p50 |-> percentile(samples, 50),
          p95 |-> percentile(samples, 95),
          p99 |-> percentile(samples, 99)]

\* bench::latency::run: the statistics of the measured latencies.
LatencyStatistics(rtts) ==
    IF rtts = <<>> THEN [NoStats EXCEPT !.some = TRUE]
    ELSE LET sorted == sort(rtts)
         IN  [some |-> TRUE, count |-> Len(rtts),
              min |-> FoldMin(rtts), max |-> FoldMax(rtts),
              p50 |-> latency_percentile(sorted, 50),
              p95 |-> latency_percentile(sorted, 95),
              p99 |-> latency_percentile(sorted, 99)]

\* bench::latency::detect_outliers (IQR method): the quartiles it takes from
\* the sorted copy and the positions of the latencies outside
\* [q1 - 1.5 iqr, q3 + 1.5 iqr]; fewer than four latencies give no outlier.
detect_outliers(rtts) ==
    IF Len(rtts) < 4 THEN NoOutliers
    ELSE LET sorted == sort(rtts)
             q1 == latency_percentile(sorted, 25)
             q3 == latency_percentile(sorted, 75)
             iqr == q3 - q1
         IN  [ran |-> TRUE, q1 |-> q1, q3 |-> q3,
              indices |-> {i \in DOMAIN rtts :
                             \/ 2 * rtts[i] < 2 * q1 - 3 * iqr
                             \/ 2 * rtts[i] > 2 * q3 + 3 * iqr}]

\* LatencyCollector::add / add_duration
CollectorAdd(latency_us) ==
    /\ stats.pc = "collect"
    /\ stats.kind = "collector"
    /\ Len(stats.samples) < MaxSamples
    /\ stats' = [stats EXCEPT !.samples = Append(@, latency_us)]
    /\ UNCHANGED nonstatsvars

\* LatencyCollector::compute
CollectorCompute ==
    /\ stats.pc = "collect"
    /\ stats.kind = "collector"
    /\ stats' = [stats EXCEPT !.pc = "done",
                              !.samples = sort(@),
                              !.ret = compute(sort(stats.samples))]
    /\ UNCHANGED nonstatsvars

\* bench::latency::run: measure_once returned Ok(rtt).
LatencyMeasure(rtt) ==
    /\ stats.pc = "collect"
    /\ stats.kind = "latency"
    /\ Len(stats.samples) < MaxSamples
    /\ stats' = [stats EXCEPT !.samples = Append(@, rtt)]
    /\ UNCHANGED nonstatsvars

\* bench::latency::run: the duration is over and the result is built.
LatencyReturn ==
    /\ stats.pc = "collect"
    /\ stats.kind = "latency"
    /\ stats' = [stats EXCEPT !.pc = "done",
                              !.ret = LatencyStatistics(stats.samples),
                              !.outliers = detect_outliers(stats.samples)]
    /\ UNCHANGED nonstatsvars

StatsNext ==
    \/ \E v \in Samples : CollectorAdd(v)
    \/ CollectorCompute
    \/ \E v \in Samples : LatencyMeasure(v)
    \/ LatencyReturn

StatsSpec == StatsInit /\ [][StatsNext]_vars

\* ------------------------------------------------------------- port lists
\* cli/scan.rs: parse_ports works on the characters of the argument, so the
\* argument is a sequence of characters here.
Digits == <<"0", "1", "2", "3", "4", "5", "6", "7", "8", "9">>

IsDigit(c) == \E i \in DOMAIN Digits : Digits[i] = c

DigitValue(c) == (CHOOSE i \in DOMAIN Digits : Digits[i] = c) - 1

\* The decimal writing of a number, as the user types it.
RECURSIVE Decimal(_)
Decimal(n) ==
    IF n < 10 THEN <<Digits[n + 1]>>
    ELSE Append(Decimal(n \div 10), Digits[(n % 10) + 1])

RECURSIVE DecimalValue(_)
DecimalValue(s) ==
    IF s = <<>> THEN 0
    ELSE 10 * DecimalValue(SubSeq(s, 1, Len(s) - 1)) + DigitValue(s[Len(s)])

\* What parse_u16 gives for Err(_): a value no u16 has.
ParseError == U16Modulus

\* str::parse::<u16>: an optional '+', then one or more digits, the value
\* below 2^16; anything else is an error.
parse_u16(s) ==
    LET digits == IF s # <<>> /\ s[1] = "+" THEN Tail(s) ELSE s
    IN  IF digits = <<>> \/ \E i \in DOMAIN digits : ~IsDigit(digits[i])
        THEN ParseError
        ELSE IF DecimalValue(digits) >= U16Modulus THEN ParseError
        ELSE DecimalValue(digits)

\* str::split(sep): the pieces between the separators, empty pieces included.
RECURSIVE split(_, _)
split(s, sep) ==
    IF \A i \in DOMAIN s : s[i] # sep THEN <<s>>
    ELSE LET k == CHOOSE i \in DOMAIN s :
                      s[i] = sep /\ \A j \in 1..(i - 1) : s[j] # sep
         IN  <<SubSeq(s, 1, k - 1)>> \o split(SubSeq(s, k + 1, Len(s)), sep)

\* str::trim
RECURSIVE trim(_)
trim(s) ==
    IF s = <<>> THEN s
    ELSE IF s[1] = " " THEN trim(Tail(s))
    ELSE IF s[Len(s)] = " " THEN trim(SubSeq(s, 1, Len(s) - 1))
    ELSE s

\* str::contains(char)
contains(s, c) == \E i \in DOMAIN s : s[i] = c

\* start..=end
RangeInclusive(start, end) == [i \in 1..(end - start + 1) |-> start + i - 1]

NeverReversed(start, end) == FALSE

\* `if start > end`
Reversed(start, end) == start > end

\* The body of the loop for a part that contains '-': the ports to add, or
\* an error.
RangePart(part) ==
    LET range == split(part, "-")
    IN  IF Len(range) # 2 THEN NoPorts
        ELSE LET start == parse_u16(trim(range[1]))
                 end == parse_u16(trim(range[2]))
             IN  IF start = ParseError \/ end = ParseError THEN NoPorts
                 ELSE IF Reversed(start, end) THEN NoPorts
                 ELSE [ok |-> TRUE, ports |-> RangeInclusive(start, end)]

\* The ports an argument is written from, and what else a user may type.
TokenPorts == {9, 10}
JunkTexts == {<<>>, <<"x">>, <<"6", "5", "5", "3", "6">>, <<"9", "-", "9", "-", "9">>}

PortTokens ==
    {[kind |-> "single", lo |-> a, hi |-> a, text |-> <<>>, pad |-> p] :
        a \in TokenPorts, p \in BOOLEAN}
    \cup {[kind |-> "range", lo |-> a, hi |-> b, text |-> <<>>, pad |-> p] :
            a \in TokenPorts, b \in TokenPorts, p \in BOOLEAN}
    \cup {[kind |-> "junk", lo |-> 0, hi |-> 0, text |-> t, pad |-> p] :
            t \in JunkTexts, p \in BOOLEAN}

\* One token as typed, with or without spaces around it.
TokenText(t) ==
    LET body == CASE t.kind = "single" -> Decimal(t.lo)
                  [] t.kind = "range" -> Decimal(t.lo) \o <<"-">> \o Decimal(t.hi)
                  [] OTHER -> t.text
    IN  IF t.pad THEN <<" ">> \o body \o <<" ">> ELSE body

\* The argument: the tokens with commas between them.
RECURSIVE ArgumentText(_)
ArgumentText(ts) ==
    IF Len(ts) = 1 THEN TokenText(ts[1])
    ELSE ArgumentText(SubSeq(ts, 1, Len(ts) - 1)) \o <<",">> \o TokenText(ts[Len(ts)])

\* parse_ports is called with an argument string.
ParserInit ==
    /\ EnginesStart({NoEngineArgs})
    /\ srv = SrvOff
    /\ client = ClientOff
    /\ conns = <<>>
    /\ mtu = MtuOff
    /\ trace = TraceOff
    /\ fail = FailOff
    /\ stats = StatsOff
    /\ parser \in {[ParserOff EXCEPT !.pc = "split", !.tokens = ts,
                                     !.ports_str = ArgumentText(ts)] :
                      ts \in SeqsUpTo(PortTokens, MaxTokens) \ {<<>>}}
    /\ pace = PaceOff
    /\ meter = MeterOff

\* `for part in ports_str.split(',')`
ParseSplit ==
    /\ parser.pc = "split"
    /\ parser' = [parser EXCEPT !.pc = "loop", !.parts = split(parser.ports_str, ",")]
    /\ UNCHANGED nonparservars

\* One turn of the loop for a part with a '-' in it.
ParseRange ==
    /\ parser.pc = "loop"
    /\ parser.parts # <<>>
    /\ LET part == trim(Head(parser.parts))
       IN  /\ contains(part, "-")
           /\ parser' = IF ~RangePart(part).ok
                        THEN [parser EXCEPT !.pc = "done", !.ret = NoPorts]
                        ELSE [parser EXCEPT !.parts = Tail(@),
                                            !.result = @ \o RangePart(part).ports]
    /\ UNCHANGED nonparservars

\* One turn of the loop for a part without a '-'.
ParseSingle ==
    /\ parser.pc = "loop"
    /\ parser.parts # <<>>
    /\ LET part == trim(Head(parser.parts))
       IN  /\ ~contains(part, "-")
           /\ parser' = IF parse_u16(part) = ParseError
                        THEN [parser EXCEPT !.pc = "done", !.ret = NoPorts]
                        ELSE [parser EXCEPT !.parts = Tail(@),
                                            !.result = Append(@, parse_u16(part))]
    /\ UNCHANGED nonparservars

\* `Ok(result)`
ParseReturn ==
    /\ parser.pc = "loop"
    /\ parser.parts = <<>>
    /\ parser' = [parser EXCEPT !.pc = "done",
                                !.ret = [ok |-> TRUE, ports |-> parser.result]]
    /\ UNCHANGED nonparservars

ParserNext ==
    \/ ParseSplit
    \/ ParseRange
    \/ ParseSingle
    \/ ParseReturn

ParserSpec == ParserInit /\ [][ParserNext]_vars

\* --- load/traffic.rs, load/http.rs: the rate limit of one worker ---------

MaxRate == 2
TicksPerSecond == 2
MaxTicks == MaxTasks * TicksPerSecond + 1
MaxIterations == 3

NoRate == [some |-> FALSE, r |-> 0]

\* cli/load.rs: --rate is an Option<u64>.
Rates == {NoRate} \cup {[some |-> TRUE, r |-> r] : r \in 0..MaxRate}

\* Duration::from_secs_f64(1.0 / r as f64 * concurrency as f64), in ticks of
\* the clock; the conversion rounds to the resolution of Duration.
Delay(r, concurrency) == RoundDiv(concurrency * TicksPerSecond, r)

\* tokio::spawn(async move { let delay = rate.map(...); ... }): a rate of 0
\* makes the value infinite and from_secs_f64 panics.
PaceInit ==
    /\ EnginesStart({NoEngineArgs})
    /\ srv = SrvOff /\ client = ClientOff /\ conns = <<>>
    /\ mtu = MtuOff
    /\ trace = TraceOff
    /\ fail = FailOff
    /\ stats = StatsOff
    /\ parser = ParserOff
    /\ \E rate \in Rates, concurrency \in 1..MaxTasks :
         pace = [PaceOff EXCEPT
                   !.pc = IF rate.some /\ rate.r = 0 THEN "panicked" ELSE "check",
                   !.rated = rate.some,
                   !.d = IF rate.some /\ rate.r > 0
                         THEN Delay(rate.r, concurrency) ELSE 0]
    /\ meter = MeterOff

\* The clock advances, whatever the worker is doing.
ClockTick ==
    /\ pace.pc \in {"check", "probe", "pad", "sleep"}
    /\ pace.now < MaxTicks
    /\ pace' = [pace EXCEPT !.now = @ + 1]
    /\ UNCHANGED nonpacevars

\* The monitor clears the running flag when the duration has passed.
PaceStop ==
    /\ pace.pc \in {"check", "probe", "pad", "sleep"}
    /\ pace.running
    /\ pace' = [pace EXCEPT !.running = FALSE]
    /\ UNCHANGED nonpacevars

\* while running.load(Ordering::Relaxed) { let start = Instant::now(); ...
PaceIterate ==
    /\ pace.pc = "check"
    /\ IF pace.running /\ pace.iterations < MaxIterations
       THEN pace' = [pace EXCEPT !.pc = "probe", !.prev = pace.start,
                                 !.start = pace.now, !.iterations = @ + 1]
       ELSE pace' = [pace EXCEPT !.pc = "exited"]
    /\ UNCHANGED nonpacevars

\* The request returns and its outcome is counted.
PaceProbeDone ==
    /\ pace.pc = "probe"
    /\ pace' = [pace EXCEPT !.pc = "pad"]
    /\ UNCHANGED nonpacevars

SleepsNever(spent, d) == FALSE

\* if elapsed < d { tokio::time::sleep(d - elapsed).await; }
Sleeps(spent, d) == spent < d

\* if let Some(d) = delay { let elapsed = start.elapsed(); ... }
PacePad ==
    /\ pace.pc = "pad"
    /\ LET spent == pace.now - pace.start IN
         IF pace.rated /\ Sleeps(spent, pace.d)
         THEN pace' = [pace EXCEPT !.pc = "sleep",
                                   !.wake = pace.now + (pace.d - spent)]
         ELSE pace' = [pace EXCEPT !.pc = "check"]
    /\ UNCHANGED nonpacevars

\* tokio::time::sleep completes at its deadline or later, never before.
PaceWake ==
    /\ pace.pc = "sleep"
    /\ pace.now >= pace.wake
    /\ pace' = [pace EXCEPT !.pc = "check"]
    /\ UNCHANGED nonpacevars

PaceNext ==
    \/ ClockTick
    \/ PaceStop
    \/ PaceIterate
    \/ PaceProbeDone
    \/ PacePad
    \/ PaceWake

PaceSpec == PaceInit /\ [][PaceNext]_vars

\* --- bench/bandwidth.rs: the per-second accounting of a direction test ----

MaxSeconds == 3
MaxBlock == 2
MaxMeterBytes == 4

\* run_upload_test / run_download_test after the command byte is sent:
\* `let start = Instant::now();` and the counters at zero.
MeterInit ==
    /\ EnginesStart({NoEngineArgs})
    /\ srv = SrvOff /\ client = ClientOff /\ conns = <<>>
    /\ mtu = MtuOff
    /\ trace = TraceOff
    /\ fail = FailOff
    /\ stats = StatsOff
    /\ parser = ParserOff
    /\ pace = PaceOff
    /\ meter \in {[MeterOff EXCEPT !.pc = "loop", !.dir = dir, !.duration = d,
                                   !.block_size = b] :
                    dir \in {"Up", "Down"}, d \in 0..MaxSeconds, b \in 0..MaxBlock}

\* A second of the clock passes, wherever the test is: before, during or after
\* a write or read.
MeterTick ==
    /\ meter.pc \in {"loop", "io", "roll"}
    /\ meter.now <= meter.duration
    /\ meter' = [meter EXCEPT !.now = @ + 1]
    /\ UNCHANGED nonmetervars

\* while start.elapsed() < duration
MeterLoopCheck ==
    /\ meter.pc = "loop"
    /\ meter' = [meter EXCEPT !.pc = IF meter.now < meter.duration
                                     THEN "io" ELSE "rest"]
    /\ UNCHANGED nonmetervars

\* stream.write_all(&data) is Ok or Err; stream.read(&mut buf) is Ok(n) with
\* n up to the block size, Ok(0) at end of stream, or Err.  Err and Ok(0)
\* break out of the loop.
MeterIo(ok, n) ==
    /\ meter.pc = "io"
    /\ IF ~ok \/ (meter.dir = "Down" /\ n = 0)
       THEN meter' = [meter EXCEPT !.pc = "rest"]
       ELSE /\ meter.dir = "Up" => n = meter.block_size
            /\ meter.total_bytes + n <= MaxMeterBytes
            /\ meter' = [meter EXCEPT !.pc = "roll", !.total_bytes = @ + n]
    /\ UNCHANGED nonmetervars

\* let current_second = start.elapsed().as_secs();
\* if current_second > last_second { push; last_second_bytes = total_bytes; .. }
MeterRoll ==
    /\ meter.pc = "roll"
    /\ meter' = IF meter.now > meter.last_second
                THEN [meter EXCEPT
                        !.pc = "loop",
                        !.per_second_bytes =
                            Append(@, meter.total_bytes - meter.last_second_bytes),
                        !.last_second_bytes = meter.total_bytes,
                        !.last_second = meter.now]
                ELSE [meter EXCEPT !.pc = "loop"]
    /\ UNCHANGED nonmetervars

NoRemainder(bytes, counted) == FALSE

\* if total_bytes > last_second_bytes
HasRemainder(bytes, counted) == bytes > counted

\* The remainder is pushed and DirectionResult built.
MeterRest ==
    /\ meter.pc = "rest"
    /\ meter' = [meter EXCEPT
                   !.pc = "done",
                   !.per_second_bytes =
                       IF HasRemainder(meter.total_bytes, meter.last_second_bytes)
                       THEN Append(@, meter.total_bytes - meter.last_second_bytes)
                       ELSE @,
                   !.bytes_transferred = meter.total_bytes]
    /\ UNCHANGED nonmetervars

MeterNext ==
    \/ MeterTick
    \/ MeterLoopCheck
    \/ \E ok \in BOOLEAN, n \in 0..MaxBlock : MeterIo(ok, n)
    \/ MeterRoll
    \/ MeterRest

MeterSpec == MeterInit /\ [][MeterNext]_vars

\* The server task is scheduled whenever it can take a step; nothing is
\* assumed of the clients.
BwLiveSpec == BwSpec /\ WF_vars(ServerNext)

\* ------------------------------------------------------------- properties
LoadEngines == {"traffic", "http", "connection"}

\* C1: every LoadTestResult returned by the traffic engine or the HTTP engine has
\* total_requests = successful_requests + failed_requests, whatever the number
\* of workers, the duration and the interleaving of the probe outcomes.
C1_TotalIsSuccessPlusFailed ==
    (args.engine \in DurationEngines /\ result.kind = "load")
        => result.total = result.successful + result.failed

\* Two workers ran, probes succeeded and failed, and the result was returned.
C1_Witness ==
    /\ args.engine \in DurationEngines
    /\ args.concurrency = 2
    /\ result.kind = "load"
    /\ result.successful >= 1
    /\ result.failed >= 1

\* C2: every ScanResult of the TCP-connect, raw and UDP scans has as many port
\* entries as summary.total_scanned, and total_scanned = open + closed +
\* filtered, also when the port list repeats a port.
C2_ScanSummaryAddsUp ==
    result.kind = "scan"
        => /\ Len(result.ports) = result.total_scanned
           /\ result.total_scanned = result.open + result.closed + result.filtered

\* A scan of a list that names the same port twice returned its result.
C2_Witness ==
    /\ result.kind = "scan"
    /\ Len(args.ports) = 2
    /\ args.ports[1] = args.ports[2]
    /\ result.total_scanned = 2

\* C3: a connection-load result for count N has total_requests = N and
\* successful_requests + failed_requests = N: each of the N tasks records
\* exactly one outcome.
C3_ConnectionCountsAddUp ==
    (args.engine = "connection" /\ result.kind = "load")
        => /\ result.total = args.count
           /\ result.successful + result.failed = args.count

\* A run of two connections, one established and one timed out, returned.
C3_Witness ==
    /\ args.engine = "connection"
    /\ args.count = 2
    /\ result.kind = "load"
    /\ \E t \in Tasks : wres[t].kind = "connected"
    /\ \E t \in Tasks : wres[t].kind = "timeout"

\* Connection attempts in progress.
InFlight == {t \in Tasks : wpc[t] = "connect"}

\* C4: in a count-bounded run with concurrency C at most C connection attempts
\* are in progress at any moment.
C4_AtMostCInFlight ==
    args.engine \in CountEngines => Cardinality(InFlight) <= args.concurrency

\* One attempt is in progress and another task waits for the only permit.
C4_Witness ==
    /\ args.engine \in CountEngines
    /\ args.concurrency = 1
    /\ Cardinality(InFlight) = 1
    /\ \E t \in Tasks : wpc[t] = "acquire"

\* C5: a duration-bounded run always goes on until it has returned: once the
\* duration has elapsed and the flag is cleared, every worker leaves its loop
\* and run returns, whatever the target does.  As a state predicate: a run
\* that has not returned can take a step.
C5_DurationRunReturns ==
    args.engine \in DurationEngines => (mainpc = "done" \/ ENABLED Next)

\* C6: a count-bounded run terminates for every count and concurrency: every
\* spawned task obtains a permit, finishes and is joined, and run returns.  As
\* a state predicate: a run that has not returned can take a step.
C6_CountRunReturns ==
    args.engine \in CountEngines => (mainpc = "done" \/ ENABLED Next)

\* C7: after setup no failed probe makes a load run fail: the failure counter
\* counts every failed probe exactly once, a worker leaves its loop only when
\* the running flag is cleared, and run returns Ok.
C7_ProbeFailuresAreCounted ==
    args.engine \in LoadEngines
        => /\ failed <= hist.err + hist.srv_err
           /\ result.kind = "load" => result.failed = hist.err + hist.srv_err
           /\ \A w \in Tasks :
                /\ wpc[w] = "exited" /\ args.engine \in DurationEngines => ~running
                /\ wpc[w] = "panicked" => args.rate = "zero"
           /\ (mainpc = "done" /\ spawned = NumTasks) => result.kind = "load"

\* One worker had two failing probes, one after the other, and run returned Ok.
C7_Witness ==
    /\ args.engine = "traffic"
    /\ args.concurrency = 1
    /\ hist.err = 2
    /\ result.kind = "load"
    /\ result.failed = 2

\* The tables of the specification, applied to the reply collected from a port.
C8_Table(scan_flags, reply) ==
    IF scan_flags = "Syn"
    THEN CASE ~reply.seen -> "Filtered"
           [] reply.seen /\ reply.syn_ack -> "Open"
           [] reply.seen /\ ~reply.syn_ack /\ reply.rst -> "Closed"
           [] OTHER -> "Filtered"
    ELSE CASE reply.seen /\ reply.rst -> "Closed"
           [] OTHER -> "Open"

\* C8: in a raw scan the state reported for each scanned port is the variant's
\* table applied to the reply collected from that port: SYN - SYN+ACK Open, RST
\* Closed, another reply Filtered, none Filtered; FIN/Xmas/NULL - RST Closed,
\* none or another reply Open.
C8_RawStateFollowsTable ==
    (args.engine = "raw" /\ result.kind = "scan")
        => \A i \in DOMAIN result.ports :
              /\ result.ports[i].port = args.ports[i]
              /\ result.ports[i].state =
                    C8_Table(args.method, hist.collected[args.ports[i]])

\* A SYN scan of two ports collected a SYN+ACK from one and an RST from the other.
C8_Witness ==
    /\ args.engine = "raw"
    /\ args.method = "Syn"
    /\ result.kind = "scan"
    /\ Len(args.ports) = 2
    /\ hist.collected[args.ports[1]].syn_ack
    /\ hist.collected[args.ports[2]].rst
    /\ ~hist.collected[args.ports[2]].syn_ack

\* C9: in a TCP-connect scan a port is Open iff its handshake completed within
\* the timeout, Closed iff the connect was refused, and Filtered on a timeout
\* or any other error.
C9_ConnectStateFollowsOutcome ==
    (args.engine = "tcp_connect" /\ result.kind = "scan")
        => \A i \in DOMAIN result.ports :
              LET r == result.ports[i]
                  o == wres[r.task]
              IN  /\ r.port = args.ports[r.task]
                  /\ r.state = "Open" <=> o.kind = "connected"
                  /\ r.state = "Closed" <=> o.kind = "refused"
                  /\ r.state = "Filtered" <=> o.kind \in {"timeout", "unreachable"}

\* A scan returned with one port refused and one connect failing otherwise.
C9_Witness ==
    /\ args.engine = "tcp_connect"
    /\ result.kind = "scan"
    /\ \E t \in Tasks : wres[t].kind = "refused"
    /\ \E t \in Tasks : wres[t].kind = "unreachable"

\* C10: in an HTTP run a completed response with status >= 500 is a failure, one
\* with status < 500 a success, each with one latency sample; a network error
\* is a failure without a sample; so the samples are the completed round-trips.
C10_HttpClassification ==
    (args.engine = "http" /\ result.kind = "load")
        => /\ result.failed = hist.srv_err + hist.err
           /\ result.successful = hist.ok
           /\ result.samples = hist.ok + hist.srv_err

\* An HTTP run returned after a 4xx response and a 5xx response.
C10_Witness ==
    /\ args.engine = "http"
    /\ result.kind = "load"
    /\ hist.srv_err = 1
    /\ hist.ok = 1
    /\ status_codes[404] = 1

\* ------------------------------------------------------------- properties: bandwidth
\* C11: after the command byte 'U' the bandwidth server stops reading when the
\* client closes the connection or when 60 seconds have elapsed since the
\* transfer began, whichever comes first: once either has happened the server
\* is not left waiting in its read loop, its pending read returns.
C11_UploadStopsAtCloseOrCap ==
    (srv.pc = "upload" /\ (srv.capped \/ conns[srv.cur].cstate # "open"))
        => ENABLED SrvUploadRead

\* C12: for every accepted connection the server acts on the first byte only:
\* 'U' makes it read and total the client's bytes and send nothing, 'D' makes it
\* send and read nothing more, any other byte starts no transfer.
C12_FirstByteDecides ==
    \A c \in DOMAIN conns :
        LET conn == conns[c]
        IN  /\ conn.cmd # "none" => conn.cmd = conn.first
            /\ conn.cmd = "U" =>
                  /\ conn.wr = 0
                  /\ conn.done => conn.logged = conn.rd
                  /\ srv.cur = c => srv.total_bytes = conn.rd
            /\ conn.cmd = "D" => conn.rd = 0
            /\ conn.cmd \notin {"U", "D"} => conn.rd = 0 /\ conn.wr = 0
            /\ conn.cmd = "none" => conn.rd = 0 /\ conn.wr = 0

\* The client ran both directions: the server totalled the upload's payload and
\* sent nothing on it, and sent blocks on the download connection.
C12_Witness ==
    /\ Len(conns) = 2
    /\ conns[1].cmd = "U" /\ conns[1].done /\ conns[1].logged = 1
    /\ conns[2].cmd = "D" /\ conns[2].done /\ conns[2].wr = MaxBytes

\* C13: a client run with direction `both` opens exactly two connections one
\* after the other, the upload connection first and the download connection
\* only after the upload transfer has finished; `up` or `down` opens exactly one.
\* (A run that ends with an error has stopped at the failing connect or command.)
C13_ClientConnections ==
    client.pc # "off" =>
        LET n == IF client.direction = "Both" THEN 2 ELSE 1
        IN  /\ Len(conns) <= n
            /\ client.result = "Ok" => Len(conns) = n
            /\ Len(conns) = 2 =>
                  /\ conns[1].first = "U"
                  /\ client.upload
                  /\ conns[1].cstate = "closed"
                  /\ conns[2].first \in {"none", "D"}
            /\ (Len(conns) >= 1 /\ client.direction = "Down") =>
                  conns[1].first \in {"none", "D"}
            /\ (Len(conns) >= 1 /\ client.direction # "Down") =>
                  conns[1].first \in {"none", "U"}

\* A run with direction `both` returned its result after two connections.
C13_Witness ==
    /\ client.direction = "Both"
    /\ client.result = "Ok"
    /\ Len(conns) = 2
    /\ conns[2].first = "D"

\* ------------------------------------------------------------- properties: MTU
\* C14: if the probe at max_mtu succeeds, the MTU search returns
\* path_mtu = max_mtu with exactly one probe recorded (that probe, marked
\* successful) and sends no further probe.
C14_MaxProbeSuccessEndsSearch ==
    (mtu.calls # <<>> /\ mtu.calls[1].o = "Some") =>
        /\ mtu.calls[1].mtu_size = mtu.max_mtu
        /\ Len(mtu.calls) = 1
        /\ mtu.pc = "done"
        /\ mtu.ret = "Ok"
        /\ mtu.path_mtu = mtu.max_mtu
        /\ mtu.probes = <<MtuProbe(mtu.max_mtu, TRUE)>>

\* min_mtu = 68, max_mtu = 1500 and a path that carries 1500 bytes.
C14_Witness ==
    /\ mtu.min_mtu = 68
    /\ mtu.max_mtu = 1500
    /\ Len(mtu.calls) = 1
    /\ mtu.calls[1].mtu_size = 1500
    /\ mtu.calls[1].o = "Some"
    /\ mtu.ret = "Ok"

\* ------------------------------------------------------------- properties: traceroute
\* C15: in TCP traceroute a hop is marked as the destination only if a TCP
\* handshake with the target actually completed for a probe sent with that
\* hop's TTL.
C15_DestinationOnlyAfterHandshake ==
    trace.mode = "Tcp" =>
        /\ trace.hop.is_destination => trace.hop.handshake
        /\ \A i \in DOMAIN trace.hops :
              trace.hops[i].is_destination => trace.hops[i].handshake

\* C16 as stated: in UDP traceroute, after a reply whose source is the target
\* no further probe is sent.
C16_NoProbeAfterTargetReply ==
    trace.mode = "Udp" => ~trace.after_target

\* C16 as amended: in UDP traceroute, after a reply whose source is the target
\* no probe with a larger TTL is sent (the remaining queries of that hop are
\* still sent): the hop of that reply is the last hop probed and the last hop
\* of the result.
C16_NoLaterHopAfterTargetReply ==
    (trace.mode = "Udp" /\ trace.target_ttl # 0) =>
        /\ trace.last_ttl = trace.target_ttl
        /\ trace.ttl = trace.target_ttl
        /\ Len(trace.hops) <= trace.target_ttl
        /\ trace.ret = "Ok" =>
              /\ Len(trace.hops) = trace.target_ttl
              /\ trace.hops[Len(trace.hops)].is_destination

\* The target replied to the first query of the second hop, the second query
\* was still sent, and the trace returned with two hops.
C16_Witness ==
    /\ trace.mode = "Udp"
    /\ trace.target_ttl = 2
    /\ trace.after_target
    /\ trace.ret = "Ok"
    /\ Len(trace.hops) = 2

\* ------------------------------------------------------------- properties: keep-alive
\* C17: with keep-alive set, every successfully connected stream is placed in
\* the shared list exactly once and stays open until the main task has waited
\* `duration` seconds after all connection tasks were joined; no parked
\* connection is closed before that wait is over.
C17_KeepAliveHoldsStreams ==
    (args.engine = "connection" /\ args.keep_alive) =>
        /\ \A t \in Tasks :
              /\ hist.pushes[t] <= 1
              /\ hist.pushes[t] = 1 => hist.stream[t] # "none"
              /\ (wpc[t] = "exited" /\ hist.stream[t] # "none") => hist.pushes[t] = 1
              /\ hist.stream[t] = "closed" =>
                    /\ joined = NumTasks
                    /\ elapsed >= args.duration
                    /\ mainpc = "done"
        /\ mainpc \in {"join", "done"} /\ joined = NumTasks =>
              connections = Cardinality({t \in Tasks : hist.stream[t] # "none"})

\* Two streams were parked, the main task slept for the configured second and
\* returned.
C17_Witness ==
    /\ args.engine = "connection"
    /\ args.keep_alive
    /\ args.duration = MaxDuration
    /\ connections = MaxTasks
    /\ mainpc = "done"
    /\ \A t \in Tasks : hist.stream[t] = "closed"

\* ------------------------------------------------------------- properties: errors
\* C18: the process exit code is determined by the kind of the returned error:
\* 0 on success, 2 for Argument, 3 for Connection, 4 for Permission, 5 for
\* Timeout; an Io error gives 4 if permission-denied, 5 if timed-out, else 1;
\* every other kind gives 1.
C18_ExitCodeByKind ==
    fail.pc = "exited" =>
        LET e == fail.result
        IN  fail.exit_code =
              CASE e.ok -> 0
                [] e.kind = "Argument" -> 2
                [] e.kind = "Connection" -> 3
                [] e.kind = "Permission" -> 4
                [] e.kind = "Timeout" -> 5
                [] e.kind = "Io" /\ e.io_kind = "PermissionDenied" -> 4
                [] e.kind = "Io" /\ e.io_kind = "TimedOut" -> 5
                [] OTHER -> 1

\* The process ended with code 5 on an Io error of kind TimedOut.
C18_Witness ==
    /\ fail.pc = "exited"
    /\ fail.result.kind = "Io"
    /\ fail.result.io_kind = "TimedOut"
    /\ fail.exit_code = 5

\* C19: every Permission error raised by any engine (raw scans, ICMP ping,
\* traceroute, MTU probe) carries a hint, so that the CLI reports a hint
\* whenever it reports a permission error.
C19_PermissionErrorsCarryHint ==
    (~fail.result.ok /\ fail.result.kind = "Permission") =>
        /\ fail.result.hint
        /\ fail.pc \in {"exit", "exited"} => "Hint" \in fail.printed

\* C20: once a summary of a non-empty set of samples has been computed, by the
\* collector or by the latency benchmark, p50 <= p95 <= p99 <= max.
C20_PercentilesMonotone ==
    (stats.pc = "done" /\ stats.samples # <<>>) =>
        /\ stats.ret.p50 <= stats.ret.p95
        /\ stats.ret.p95 <= stats.ret.p99
        /\ stats.ret.p99 <= stats.ret.max

\* C20: the latency benchmark has summarised samples that arrived out of order
\* and whose median is below their 95th percentile.
C20_Witness ==
    /\ stats.pc = "done"
    /\ stats.kind = "latency"
    /\ Len(stats.samples) = MaxSamples
    /\ stats.samples # sort(stats.samples)
    /\ stats.ret.p50 < stats.ret.p95

\* What the port tokens of an argument stand for: each single port, each range
\* from its low end to its high end, in the order of the tokens.
RECURSIVE PortsOfTokens(_)
PortsOfTokens(ts) ==
    IF ts = <<>> THEN <<>>
    ELSE (IF Head(ts).kind = "single" THEN <<Head(ts).lo>>
          ELSE [i \in 1..(Head(ts).hi - Head(ts).lo + 1) |-> Head(ts).lo + i - 1])
         \o PortsOfTokens(Tail(ts))

WellFormed(ts) ==
    \A i \in DOMAIN ts : /\ ts[i].kind \in {"single", "range"}
                         /\ ts[i].lo <= ts[i].hi

HasReversedRange(ts) ==
    \E i \in DOMAIN ts : ts[i].kind = "range" /\ ts[i].lo > ts[i].hi

\* C21: once parse_ports has returned, an argument of single ports and
\* low-high ranges, with or without spaces around the tokens, has given the
\* ports of its tokens in token order, each range ascending; an argument with
\* a reversed range has given an error and no list.
C21_ParsePortsExpandsTokens ==
    parser.pc = "done" =>
        /\ WellFormed(parser.tokens) =>
              /\ parser.ret.ok
              /\ parser.ret.ports = PortsOfTokens(parser.tokens)
        /\ HasReversedRange(parser.tokens) =>
              /\ ~parser.ret.ok
              /\ parser.ret.ports = <<>>

\* C21: a padded single port followed by a range of two ports has been parsed.
C21_Witness ==
    /\ parser.pc = "done"
    /\ Len(parser.tokens) = 2
    /\ parser.tokens[1].kind = "single" /\ parser.tokens[1].pad
    /\ parser.tokens[2].kind = "range" /\ parser.tokens[2].lo < parser.tokens[2].hi
    /\ parser.ret.ok
    /\ Len(parser.ret.ports) = 3

\* The run is aggregating or has aggregated its result.
AggregationStarted == mainpc = "aggregate" \/ result.kind \in {"load", "scan"}

\* C22: once aggregation has started every task that can update the shared
\* state has finished: every spawned worker has run to its end and the receive
\* task of a raw scan has left its loop.
C22_AggregationAfterTasksFinish ==
    AggregationStarted =>
        /\ \A t \in Tasks : wpc[t] \in {"unspawned", "exited", "panicked"}
        /\ rxState # "Listening"

\* Tasks that have been spawned and have not run to their end.
SpawnedUnfinished == {t \in Tasks : wpc[t] \notin {"unspawned", "exited", "panicked"}}

\* Tasks that hold a permit of the semaphore.
PermitHolders == {t \in Tasks : wpc[t] \in {"connect", "latency", "park", "push"}}

\* C23, as stated: in a count-bounded run the number of spawned, unfinished
\* tasks never exceeds the concurrency.
C23_SpawnedUnfinishedAtMostC ==
    args.engine \in CountEngines =>
        Cardinality(SpawnedUnfinished) <= args.concurrency

\* C23, amended: in a count-bounded run the semaphore gates the work of a task,
\* not its spawning: the tasks that hold a permit and the free permits add up
\* to the concurrency, so at most `concurrency` tasks hold one, and every other
\* spawned, unfinished task is waiting for a permit.
C23_PermitGatesWork ==
    (args.engine \in CountEngines /\ mainpc # "start" /\ result.kind # "err") =>
        /\ Cardinality(PermitHolders) + permits = args.concurrency
        /\ Cardinality(PermitHolders) <= args.concurrency
        /\ \A t \in SpawnedUnfinished \ PermitHolders : wpc[t] = "acquire"

\* C23: two tasks are spawned and unfinished with one permit: one holds it, the
\* other waits.
C23_Witness ==
    /\ args.engine \in CountEngines
    /\ args.concurrency = 1
    /\ Cardinality(SpawnedUnfinished) = 2
    /\ Cardinality(PermitHolders) = 1

\* C24: every step in which the receive loop reads a TCP packet from the
\* target while it is listening leaves the state of that packet under its
\* source port in the map.
C24_EveryTargetPacketRecorded ==
    [][(RxNext /\ Head(rxq).src = "target")
          => rmap'[Head(rxq).port] = determine_port_state(Head(rxq), args.method)]_vars

\* The sizes the MTU search has probed with success, and without.
SucceededSizes == {mtu.probes[i].mtu_size : i \in {j \in DOMAIN mtu.probes : mtu.probes[j].success}}
FailedSizes == {mtu.probes[i].mtu_size : i \in {j \in DOMAIN mtu.probes : ~mtu.probes[j].success}}

\* C25: the first probe is of max_mtu, the second of min_mtu, every later one
\* of the midpoint of [low, high]; in the halving phase low is a size whose
\* probe succeeded and high a size whose probe failed; and with low + 1 >= high
\* no further probe is made.
C25_SearchOrder ==
    /\ [](/\ Len(mtu.calls) >= 1 => mtu.calls[1].mtu_size = mtu.max_mtu
          /\ Len(mtu.calls) >= 2 => mtu.calls[2].mtu_size = mtu.min_mtu
          /\ mtu.pc = "search" => /\ mtu.low \in SucceededSizes
                                  /\ mtu.high \in FailedSizes
          /\ (mtu.pc = "search" /\ mtu.low + 1 >= mtu.high)
                => ~ENABLED (\E o \in {"Err", "Some", "None"} : MtuSearchProbe(o)))
    /\ [][((\E o \in {"Err", "Some", "None"} : MtuSearchProbe(o))
              /\ Len(mtu'.calls) > Len(mtu.calls))
            => mtu'.calls[Len(mtu'.calls)].mtu_size = (mtu.low + mtu.high) \div 2]_vars

\* Path MTUs of a monotone path, and the probes made so far answering as a
\* path of MTU M answers: success exactly for the sizes up to M.
PathMtus == {70, 1495, 65530}
AnsweredAsPath(M) ==
    \A i \in DOMAIN mtu.calls :
        /\ mtu.calls[i].o # "Err"
        /\ (mtu.calls[i].o = "Some") <=> (mtu.calls[i].mtu_size <= M)

\* C26: on a monotone path of MTU M with min_mtu <= M <= max_mtu the search,
\* once it has made its first probe, goes on until it returns, and it returns
\* path_mtu = M.
C26_MonotonePathFound ==
    \A M \in PathMtus :
        (mtu.calls # <<>> /\ mtu.min_mtu <= M /\ M <= mtu.max_mtu
         /\ AnsweredAsPath(M))
            => /\ mtu.pc # "done" => ENABLED MtuNext
               /\ mtu.pc = "done" => (mtu.ret = "Ok" /\ mtu.path_mtu = M)

\* C27: the path_mtu the search returns is the size of a probe in the returned
\* list that succeeded.
C27_PathMtuIsSuccessfulProbe ==
    (mtu.pc = "done" /\ mtu.ret = "Ok") => mtu.path_mtu \in SucceededSizes

\* C28: whatever min_mtu and max_mtu are, neither `high - 1` in the loop
\* condition nor `low + high` in the midpoint leaves the range of a u16.
C28_ArithmeticInRange ==
    mtu.pc = "search" =>
        /\ ~Underflows(mtu.high)
        /\ mtu.low < HighMinusOne(mtu.high) => ~Overflows(mtu.low, mtu.high)

\* C29: every synchronous MTU probe is executed on the blocking pool of the
\* executor.
C29_ProbesOnBlockingPool ==
    \A i \in DOMAIN mtu.calls : mtu.calls[i].pool

\* C30: at every moment of a traffic or HTTP run the classified probes are at
\* most the counted ones, and at most `concurrency` counted probes are not yet
\* classified: successful + failed <= total <= successful + failed + concurrency.
C30_TotalBracketsClassified ==
    args.engine \in DurationEngines =>
        /\ success + failed <= total
        /\ total <= success + failed + args.concurrency

\* C30: two workers have each counted a probe in total and classified neither.
C30_Witness ==
    /\ args.engine \in DurationEngines
    /\ args.concurrency = 2
    /\ total = success + failed + 2
    /\ \A w \in Tasks : wpc[w] = "counted"

\* C31: a traceroute result has hops with the TTLs 1, 2, .., k in order, with
\* k <= max_hops; no hop before the last is flagged is_destination;
\* reached_destination tells whether the last hop is flagged; total_hops = k.
C31_HopsOfResult ==
    (trace.pc = "done" /\ trace.ret = "Ok") =>
        LET k == Len(trace.hops)
        IN  /\ k <= trace.max_hops
            /\ \A i \in 1..k : trace.hops[i].ttl = i
            /\ \A i \in 1..(k - 1) : ~trace.hops[i].is_destination
            /\ trace.reached_destination
                  <=> (k > 0 /\ trace.hops[k].is_destination)
            /\ trace.total_hops = k

\* C31: a result of two hops, the second one the destination.
C31_Witness ==
    /\ trace.pc = "done" /\ trace.ret = "Ok"
    /\ Len(trace.hops) = 2
    /\ trace.hops[2].is_destination
    /\ trace.reached_destination

\* C32: whatever the base port, the destination port of every query of UDP
\* traceroute, port + ttl + query, is below 2^16.
C32_DestPortInRange ==
    (trace.mode = "Udp" /\ InHop) =>
        ~DestPortOverflows(trace.port, trace.ttl, trace.query)

\* C33: an HTTP run builds one HTTP client at most, which all its workers share.
C33_OneSharedClient ==
    args.engine = "http" => ClientsBuilt <= 1

\* C34: once an HTTP run has returned an error, none of the workers it started
\* is still running.
C34_NoWorkerLeftAfterError ==
    (args.engine = "http" /\ mainpc = "done" /\ result.kind = "err") =>
        \A w \in Tasks : wpc[w] \in {"unspawned", "exited", "panicked"}

\* C35: whatever the client of an accepted connection does, the server
\* eventually is back at accept.
C35_ServerReturnsToAccept ==
    (srv.pc \in {"cmd", "upload", "download"}) ~> (srv.pc = "accept")


\* C36: with a rate configured, a worker begins an iteration no sooner than
\* the delay computed from the rate and the concurrency after it began the
\* iteration before.
C36_IterationsPaddedToDelay ==
    (pace.rated /\ pace.iterations >= 2) => pace.start - pace.prev >= pace.d

\* A worker that slept out the rest of the delay has begun its next iteration.
C36_Witness ==
    /\ pace.rated /\ pace.d = 2 * TicksPerSecond
    /\ pace.iterations = 2 /\ pace.pc = "probe"
    /\ pace.start - pace.prev = pace.d
    /\ pace.wake = pace.start


\* C37: a raw-socket scan that fails the effective-UID check returns a
\* Permission error and has performed no operation but that check.
C37_UidCheckComesFirst ==
    (args.engine = "raw" /\ mainpc = "done" /\ hist.ops # <<>>
        /\ hist.ops[Len(hist.ops)] = "geteuid")
    => (result.kind = "err" /\ result.err = "Permission" /\ hist.ops = <<"geteuid">>)


\* C38: when the subcommand has failed, run_command returns the subcommand's
\* error and the process exits with the code of that error's kind, with or
\* without --save-profile.
C38_SubcommandErrorDecidesExit ==
    (fail.pc = "exited" /\ ~fail.cmd.ok)
    => (fail.result = fail.cmd /\ fail.exit_code = exit_status(fail.cmd))


\* C39: the quartiles of the outlier detection are the elements the
\* percentile method of the statistics kernel selects from the sorted samples.
C39_QuartilesByKernelMethod ==
    (stats.pc = "done" /\ stats.kind = "latency" /\ stats.outliers.ran)
    => /\ stats.outliers.q1 = percentile(sort(stats.samples), 25)
       /\ stats.outliers.q3 = percentile(sort(stats.samples), 75)


SumOf(s) == LET RECURSIVE Sum(_)
                Sum(k) == IF k = 0 THEN 0 ELSE s[k] + Sum(k - 1)
            IN  Sum(Len(s))

\* C40: when an upload or download test is over, its per-second byte entries
\* add up to the bytes transferred, whatever the timing of the writes or reads.
C40_PerSecondSumsToTotal ==
    meter.pc = "done" => SumOf(meter.per_second_bytes) = meter.bytes_transferred

\* A test whose clock passed two seconds during a single write or read, with
\* an entry pushed at that rollover and a remainder pushed at the end.
C40_Witness ==
    /\ meter.pc = "done"
    /\ meter.last_second = 2
    /\ Len(meter.per_second_bytes) = 2
    /\ meter.bytes_transferred > meter.last_second_bytes
    /\ meter.last_second_bytes > 0

====
